---- MODULE Spec2Model ----
(***************************************************************************)
(* hipify-clang (src/hipify-clang/src/Cuda2Hip.cpp): the driver loop of    *)
(* main and the translator callbacks that collect byte-range replacements  *)
(* for one translation unit.                                               *)
(*                                                                         *)
(* Text is modelled byte by byte: a string is a sequence of one-character  *)
(* strings, a source location is a 0-based byte offset into the main file. *)
(***************************************************************************)
EXTENDS Integers, Sequences, FiniteSets, Bags, TLC

(***************************************************************************)
(* String literals of the source, spelled out byte by byte.                *)
(***************************************************************************)
s_hash_include ==
    <<"#", "i", "n", "c", "l", "u", "d", "e", " ">>
s_lt ==
    <<"<">>
s_gt ==
    <<">">>
s_nl ==
    <<"\n">>
s_comma_sp ==
    <<",", " ">>
s_zero ==
    <<"0">>
s_rparen ==
    <<")">>
s_rparen_comma_sp ==
    <<")", ",", " ">>
s_hip_include_line ==
    <<"#", "i", "n", "c", "l", "u", "d", "e", " ", "<", "h", "i", "p", "/", "h", "i", "p", "_", "r", "u", "n", "t", "i", "m", "e", ".", "h", ">">>
s_include_cuda ==
    <<"#", "i", "n", "c", "l", "u", "d", "e", " ", "<", "c", "u", "d", "a", ">">>
s_hipLaunchKernelGGL ==
    <<"h", "i", "p", "L", "a", "u", "n", "c", "h", "K", "e", "r", "n", "e", "l", "G", "G", "L", "(">>
s_dim3 ==
    <<"d", "i", "m", "3", "(">>
s_cudaLaunchKernel ==
    <<"c", "u", "d", "a", "L", "a", "u", "n", "c", "h", "K", "e", "r", "n", "e", "l">>
s_HIP_DYNAMIC_SHARED ==
    <<"H", "I", "P", "_", "D", "Y", "N", "A", "M", "I", "C", "_", "S", "H", "A", "R", "E", "D", "(">>
s_cudaSharedIncompleteArrayVar ==
    <<"c", "u", "d", "a", "S", "h", "a", "r", "e", "d", "I", "n", "c", "o", "m", "p", "l", "e", "t", "e", "A", "r", "r", "a", "y", "V", "a", "r">>
s_hipify_tmp ==
    <<".", "h", "i", "p", "i", "f", "y", "-", "t", "m", "p">>
s_hip ==
    <<".", "h", "i", "p">>
s_prehip ==
    <<".", "p", "r", "e", "h", "i", "p">>

(***************************************************************************)
(* Names of the rename tables (CUDA2HipMap.h) and of the sample inputs.    *)
(***************************************************************************)
s_cuda_runtime_h ==
    <<"c", "u", "d", "a", "_", "r", "u", "n", "t", "i", "m", "e", ".", "h">>
s_hip_runtime_h ==
    <<"h", "i", "p", "/", "h", "i", "p", "_", "r", "u", "n", "t", "i", "m", "e", ".", "h">>
s_cudaGL_h ==
    <<"c", "u", "d", "a", "G", "L", ".", "h">>
s_stdio_h ==
    <<"s", "t", "d", "i", "o", ".", "h">>
s_cudaError_t ==
    <<"c", "u", "d", "a", "E", "r", "r", "o", "r", "_", "t">>
s_hipError_t ==
    <<"h", "i", "p", "E", "r", "r", "o", "r", "_", "t">>
s_cudaMalloc ==
    <<"c", "u", "d", "a", "M", "a", "l", "l", "o", "c">>
s_hipMalloc ==
    <<"h", "i", "p", "M", "a", "l", "l", "o", "c">>
s_int ==
    <<"i", "n", "t">>
s_float ==
    <<"f", "l", "o", "a", "t">>
s_buf ==
    <<"b", "u", "f">>

(***************************************************************************)
(* Further literals of the handlers and further table names.               *)
(***************************************************************************)
s_cu ==
    <<"c", "u">>
s_fetch_builtin ==
    <<"_", "_", "f", "e", "t", "c", "h", "_", "b", "u", "i", "l", "t", "i",
      "n", "_">>
s_cudaSuccess ==
    <<"c", "u", "d", "a", "S", "u", "c", "c", "e", "s", "s">>
s_threadIdx_x ==
    <<"t", "h", "r", "e", "a", "d", "I", "d", "x", ".", "x">>
s_cudaSetDoubleForDevice ==
    <<"c", "u", "d", "a", "S", "e", "t", "D", "o", "u", "b", "l", "e", "F",
      "o", "r", "D", "e", "v", "i", "c", "e">>
s_cudaUUID_t ==
    <<"c", "u", "d", "a", "U", "U", "I", "D", "_", "t">>

(***************************************************************************)
(* Rename tables.  Each entry carries the DST name and the unsupported     *)
(* flag; the statistics key of an entry is the SRC name it is counted      *)
(* under.                                                                  *)
(***************************************************************************)
Entry(hipName, unsupported) ==
    [hipName |-> hipName, unsupported |-> unsupported]

CUDA_INCLUDE_MAP ==
    (s_cuda_runtime_h :> Entry(s_hip_runtime_h, FALSE)) @@
    (s_cudaGL_h :> Entry(<<>>, TRUE))

CUDA_TYPE_NAME_MAP ==
    (s_cudaError_t :> Entry(s_hipError_t, FALSE)) @@
    (s_cudaUUID_t :> Entry(<<>>, TRUE))

CUDA_IDENTIFIER_MAP ==
    (s_cudaMalloc :> Entry(s_hipMalloc, FALSE)) @@
    (s_cudaSuccess :> Entry(<<"h", "i", "p", "S", "u", "c", "c", "e", "s", "s">>, FALSE)) @@
    (s_threadIdx_x :>
        Entry(<<"h", "i", "p", "T", "h", "r", "e", "a", "d", "I", "d", "x", "_", "x">>,
              FALSE)) @@
    (s_cudaSetDoubleForDevice :> Entry(<<>>, TRUE))

\* CUDA_RENAMES_MAP(): the identifier table and the type-name table together
CUDA_RENAMES_MAP ==
    CUDA_IDENTIFIER_MAP @@ CUDA_TYPE_NAME_MAP

(***************************************************************************)
(* Byte-level helpers.                                                     *)
(***************************************************************************)
\* bytes [b, e) of s, offsets counted from 0
Slice(s, b, e) ==
    IF e <= b THEN <<>> ELSE SubSeq(s, b + 1, e)

IdentChars ==
    {"a", "b", "c", "d", "e", "f", "g", "h", "i", "j", "k", "l", "m",
     "n", "o", "p", "q", "r", "s", "t", "u", "v", "w", "x", "y", "z",
     "A", "B", "C", "D", "E", "F", "G", "H", "I", "J", "K", "L", "M",
     "N", "O", "P", "Q", "R", "S", "T", "U", "V", "W", "X", "Y", "Z",
     "0", "1", "2", "3", "4", "5", "6", "7", "8", "9", "_"}

\* length of the token that starts at offset off: an identifier or number
\* runs to the first non-identifier byte, any other token is one byte here
IdentRun(text, off) ==
    LET stops == {k \in off..Len(text) :
                     k = Len(text) \/ text[k + 1] \notin IdentChars}
    IN  (CHOOSE k \in stops : \A j \in stops : k <= j) - off

MeasureTokenLength(text, off) ==
    IF off < Len(text) /\ text[off + 1] \in IdentChars
    THEN IdentRun(text, off)
    ELSE 1

getLocForEndOfToken(text, off) ==
    off + MeasureTokenLength(text, off)

(***************************************************************************)
(* StringRef searches.  Positions count from 0; npos is "not found".       *)
(***************************************************************************)
npos == -1

\* StringRef::find(pat, from)
find(s, pat, from) ==
    LET hits == {k \in from..(Len(s) - Len(pat)) :
                    Slice(s, k, k + Len(pat)) = pat}
    IN  IF hits = {} THEN npos
        ELSE CHOOSE k \in hits : \A j \in hits : k <= j

\* StringRef::find_first_of(chars, from)
find_first_of(s, chars, from) ==
    LET hits == {k \in from..(Len(s) - 1) : s[k + 1] \in chars}
    IN  IF hits = {} THEN npos
        ELSE CHOOSE k \in hits : \A j \in hits : k <= j

\* StringRef::find_first_not_of(chars)
find_first_not_of(s, chars) ==
    LET hits == {k \in 0..(Len(s) - 1) : s[k + 1] \notin chars}
    IN  IF hits = {} THEN npos
        ELSE CHOOSE k \in hits : \A j \in hits : k <= j

\* StringRef::slice(b, e): both ends clamped to the string, npos being the
\* largest size_t
StringRef_slice(s, b, e) ==
    LET st == IF b = npos \/ b > Len(s) THEN Len(s) ELSE b
        en == IF e = npos \/ e > Len(s) THEN Len(s)
              ELSE IF e < st THEN st ELSE e
    IN  Slice(s, st, en)

(***************************************************************************)
(* Source locations.  A location carries its file offset, the offset of    *)
(* its spelling, and whether it lies in a macro body expansion (and then   *)
(* whether it is the first / last token of that expansion).                *)
(***************************************************************************)
PlainLoc(off) ==
    [file |-> off, spell |-> off, body |-> FALSE, first |-> FALSE, last |-> FALSE]

getFileLoc(l) == l.file

getSpellingLoc(l) == l.spell

isMacroBodyExpansion(l) == l.body

getReadRange(b, e) ==
    LET beginSafe == ~isMacroBodyExpansion(b) \/ b.first
        endSafe == ~isMacroBodyExpansion(e) \/ e.last
    IN  IF beginSafe /\ endSafe
        THEN <<getFileLoc(b), getFileLoc(e)>>
        ELSE <<getSpellingLoc(b), getSpellingLoc(e)>>

\* a write range that takes the spelling locations as soon as one endpoint
\* lies in a macro body expansion
getWriteRange_either(b, e) ==
    IF isMacroBodyExpansion(b) \/ isMacroBodyExpansion(e)
    THEN <<getSpellingLoc(b), getSpellingLoc(e)>>
    ELSE <<getFileLoc(b), getFileLoc(e)>>

getWriteRange(b, e) ==
    IF ~isMacroBodyExpansion(b) \/ ~isMacroBodyExpansion(e)
    THEN <<getFileLoc(b), getFileLoc(e)>>
    ELSE <<getSpellingLoc(b), getSpellingLoc(e)>>

\* Lexer::getSourceText over the token range of the read range
readSourceText(text, b, e) ==
    LET r == getReadRange(b, e)
    IN  Slice(text, r[1], getLocForEndOfToken(text, r[2]))

(***************************************************************************)
(* Replacement set.                                                        *)
(***************************************************************************)
Replacement(off, len, text) ==
    [off |-> off, len |-> len, text |-> text]

\* two edits share at least one byte of [off, off + len)
Overlaps(e1, e2) ==
    e1.off < e2.off + e2.len /\ e2.off < e1.off + e1.len

\* llcompat::insertReplacement: a duplicate is dropped, an edit overlapping
\* an edit already held is rejected
llcompat_insertReplacement(R, rep) ==
    IF rep \in R THEN R
    ELSE IF \E e \in R : Overlaps(e, rep) THEN R
    ELSE R \cup {rep}

\* Translator state threaded through the handlers: the replacement set of
\* the file, the statistics counters (a bag of counted names), the warnings
\* printed and the bytesChanged total.
TrState(R, st, w, b) ==
    [Replace |-> R, stats |-> st, warned |-> w, bytes |-> b]

incrementCounter(t, name) ==
    [t EXCEPT !.stats = @ (+) SetToBag({name})]

printHipifyMessage(t, name) ==
    [t EXCEPT !.warned = @ \cup {name}]

\* insertReplacement that puts the edit into the set itself, with neither
\* the duplicate nor the overlap test
insertReplacement_unchecked(t, rep, printStats) ==
    [t EXCEPT !.Replace = @ \cup {rep},
              !.bytes = IF printStats THEN @ + rep.len ELSE @]

insertReplacement(t, rep, printStats) ==
    [t EXCEPT !.Replace = llcompat_insertReplacement(@, rep),
              !.bytes = IF printStats THEN @ + rep.len ELSE @]

s_header_text == s_hip_include_line \o s_nl

\* insertHipHeaders without the test of Replace.size()
insertHipHeaders_unguarded(t, printStats) ==
    insertReplacement(incrementCounter(t, s_include_cuda),
                      Replacement(0, 0, s_header_text), printStats)

insertHipHeaders(t, printStats) ==
    IF Cardinality(t.Replace) > 0
    THEN insertReplacement(incrementCounter(t, s_include_cuda),
                           Replacement(0, 0, s_header_text), printStats)
    ELSE t

(***************************************************************************)
(* Applying the replacements to a buffer: one ascending pass; at each      *)
(* edit offset the insertions come first, then the replacement.            *)
(***************************************************************************)
RECURSIVE InsertionsText(_)
InsertionsText(ins) ==
    IF ins = {} THEN <<>>
    ELSE LET e == CHOOSE x \in ins : TRUE
         IN  e.text \o InsertionsText(ins \ {e})

RECURSIVE ApplyFrom(_, _, _)
ApplyFrom(buf, R, p) ==
    LET rest == {e \in R : e.off >= p /\ e.off <= Len(buf)}
    IN  IF rest = {} THEN Slice(buf, p, Len(buf))
        ELSE LET m == CHOOSE o \in {e.off : e \in rest} :
                          \A e \in rest : o <= e.off
                 ins == {e \in rest : e.off = m /\ e.len = 0}
                 reps == {e \in rest : e.off = m /\ e.len > 0}
             IN  Slice(buf, p, m) \o InsertionsText(ins) \o
                 (IF reps # {}
                  THEN LET e == CHOOSE x \in reps : TRUE
                       IN  e.text \o ApplyFrom(buf, rest \ ins, m + e.len)
                  ELSE ApplyFrom(buf, rest \ ins, m))

applyAllReplacements(buf, R) == ApplyFrom(buf, R, 0)

(***************************************************************************)
(* Preprocessor and AST-match handlers.  Each takes the translator state   *)
(* and the data the front-end hands to the callback and returns the new    *)
(* translator state.                                                       *)
(***************************************************************************)
s_enum_sp ==
    <<"e", "n", "u", "m", " ">>
s_struct_sp ==
    <<"s", "t", "r", "u", "c", "t", " ">>

removePrefixIfPresent(s, prefix) ==
    IF Len(s) >= Len(prefix) /\ SubSeq(s, 1, Len(prefix)) = prefix
    THEN SubSeq(s, Len(prefix) + 1, Len(s))
    ELSE s

\* InclusionDirective that takes every angled include of the main file for
\* the runtime header instead of returning on a miss
InclusionDirective_anyHeader(t, ev, printStats) ==
    IF ~ev.inMain \/ ~ev.angled THEN t
    ELSE LET found == IF ev.file_name \in DOMAIN CUDA_INCLUDE_MAP
                      THEN CUDA_INCLUDE_MAP[ev.file_name]
                      ELSE CUDA_INCLUDE_MAP[s_cuda_runtime_h]
             t1 == incrementCounter(t, ev.file_name)
         IN  IF found.unsupported
             THEN printHipifyMessage(t1, ev.file_name)
             ELSE insertReplacement(
                      t1,
                      Replacement(ev.begin, ev.end - ev.begin,
                                  s_lt \o found.hipName \o s_gt),
                      printStats)

\* HipifyPPCallbacks::InclusionDirective
InclusionDirective(t, ev, printStats) ==
    IF ~ev.inMain \/ ~ev.angled THEN t
    ELSE IF ev.file_name \notin DOMAIN CUDA_INCLUDE_MAP THEN t
    ELSE LET found == CUDA_INCLUDE_MAP[ev.file_name]
             t1 == incrementCounter(t, ev.file_name)
         IN  IF found.unsupported
             THEN printHipifyMessage(t1, ev.file_name)
             ELSE insertReplacement(
                      t1,
                      Replacement(ev.begin, ev.end - ev.begin,
                                  s_lt \o found.hipName \o s_gt),
                      printStats)

\* Cuda2HipCallback::cudaType; the second component is the return value
cudaType(t, ev, printStats) ==
    LET n1 == IF ev.isEnum THEN removePrefixIfPresent(ev.typeName, s_enum_sp)
              ELSE ev.typeName
        typeName == IF ev.isStruct THEN removePrefixIfPresent(n1, s_struct_sp)
                    ELSE n1
    IN  IF typeName \notin DOMAIN CUDA_TYPE_NAME_MAP THEN <<t, FALSE>>
        ELSE LET hipCtr == CUDA_TYPE_NAME_MAP[typeName]
             IN  IF hipCtr.unsupported
                 THEN <<printHipifyMessage(t, typeName), FALSE>>
                 ELSE <<insertReplacement(
                            t,
                            Replacement(ev.begin, Len(typeName), hipCtr.hipName),
                            printStats),
                        TRUE>>

\* Cuda2HipCallback::cudaCall
cudaCall(t, ev, printStats) ==
    IF ev.name \notin DOMAIN CUDA_IDENTIFIER_MAP
    THEN printHipifyMessage(t, ev.name)
    ELSE LET hipCtr == CUDA_IDENTIFIER_MAP[ev.name]
             t1 == incrementCounter(t, ev.name)
         IN  IF hipCtr.unsupported THEN t1
             ELSE insertReplacement(
                      t1,
                      Replacement(ev.begin, Len(ev.name), hipCtr.hipName),
                      printStats)

\* stringifyZeroDefaultedArg that reads the source text of a defaulted
\* argument as well
stringifyZeroDefaultedArg_verbatim(text, arg) ==
    readSourceText(text, arg.b, arg.e)

\* Cuda2HipCallback::stringifyZeroDefaultedArg
stringifyZeroDefaultedArg(text, arg) ==
    IF arg.isDefault THEN s_zero
    ELSE readSourceText(text, arg.b, arg.e)

\* Cuda2HipCallback::cudaLaunchKernel
cudaLaunchKernel(text, t, ev, printStats) ==
    LET numArgs == Len(ev.args)
        OS == s_hipLaunchKernelGGL
              \o readSourceText(text, ev.callee.b, ev.callee.e) \o s_comma_sp
              \o s_dim3 \o readSourceText(text, ev.config[1].b, ev.config[1].e)
              \o s_rparen_comma_sp
              \o s_dim3 \o readSourceText(text, ev.config[2].b, ev.config[2].e)
              \o s_rparen_comma_sp
              \o stringifyZeroDefaultedArg(text, ev.config[3]) \o s_comma_sp
              \o stringifyZeroDefaultedArg(text, ev.config[4])
              \o (IF numArgs > 0
                  THEN s_comma_sp
                       \o readSourceText(text, ev.args[1].b, ev.args[numArgs].e)
                  ELSE <<>>)
              \o s_rparen
        replacementRange == getWriteRange(ev.start, ev.end)
        launchStart == replacementRange[1]
        launchEnd == replacementRange[2]
        length == getLocForEndOfToken(text, launchEnd) - launchStart
    IN  incrementCounter(
            insertReplacement(t, Replacement(launchStart, length, OS), printStats),
            s_cudaLaunchKernel)

\* Cuda2HipCallback::cudaSharedIncompleteArrayVar
cudaSharedIncompleteArrayVar(t, ev, printStats) ==
    IF ~ev.hasExternalFormalLinkage THEN t
    ELSE LET typeName == IF ev.isIncompleteArrayType THEN ev.elemTypeName
                         ELSE <<>>
         IN  IF typeName = <<>> THEN t
             ELSE LET repLength == ev.end - ev.start + 1
                      repName == s_HIP_DYNAMIC_SHARED \o typeName \o s_comma_sp
                                 \o ev.varName \o s_rparen
                  IN  incrementCounter(
                          insertReplacement(
                              t, Replacement(ev.start, repLength, repName),
                              printStats),
                          s_cudaSharedIncompleteArrayVar)

\* a scan that resumes one byte after the start of the candidate instead
\* of after its end
RECURSIVE processStringScan_resumeInside(_, _)
processStringScan_resumeInside(s, from) ==
    LET begin == find(s, s_cu, from)
    IN  IF begin = npos THEN <<>>
        ELSE LET end == find_first_of(s, {" "}, begin + 4)
             IN  <<[begin |-> begin, end |-> end]>>
                 \o processStringScan_resumeInside(s, begin + 1)

\* the iterations of the while loop of Cuda2Hip::processString with its
\* scan position at from: the begin and the end of each candidate, in order
RECURSIVE processStringScan(_, _)
processStringScan(s, from) ==
    LET begin == find(s, s_cu, from)
    IN  IF begin = npos THEN <<>>
        ELSE LET end == find_first_of(s, {" "}, begin + 4)
             IN  <<[begin |-> begin, end |-> end]>>
                 \o (IF end = npos THEN <<>>
                     ELSE processStringScan(s, end + 1))

\* Cuda2Hip::processString with its scan position at from (0 on entry): one
\* turn of the while loop per occurrence of "cu"
RECURSIVE processString(_, _, _, _, _)
processString(t, s, start, from, printStats) ==
    LET begin == find(s, s_cu, from)
    IN  IF begin = npos THEN t
        ELSE LET end == find_first_of(s, {" "}, begin + 4)
                 name == StringRef_slice(s, begin, end)
                 t1 == IF name \in DOMAIN CUDA_RENAMES_MAP
                       THEN LET found == CUDA_RENAMES_MAP[name]
                                t0 == incrementCounter(t, name)
                            IN  IF ~found.unsupported
                                THEN insertReplacement(
                                         t0,
                                         Replacement(start + begin + 1,
                                                     Len(name), found.hipName),
                                         printStats)
                                ELSE t0
                       ELSE t
             IN  IF end = npos THEN t1
                 ELSE processString(t1, s, start, end + 1, printStats)

\* unquoteStr: the literal without its enclosing quotes
unquoteStr(s) ==
    IF Len(s) >= 2 /\ s[1] = "\"" /\ s[Len(s)] = "\""
    THEN SubSeq(s, 2, Len(s) - 1)
    ELSE s

\* HipifyPPCallbacks::RewriteToken
RewriteToken(t, tok, printStats) ==
    IF tok.kind = "string_literal"
    THEN processString(t, unquoteStr(tok.text), tok.loc, 0, printStats)
    ELSE IF tok.kind # "identifier" THEN t
    ELSE IF tok.text \notin DOMAIN CUDA_RENAMES_MAP THEN t
    ELSE LET found == CUDA_RENAMES_MAP[tok.text]
             t1 == incrementCounter(t, tok.text)
         IN  IF found.unsupported
             THEN printHipifyMessage(t1, tok.text)
             ELSE insertReplacement(
                      t1, Replacement(tok.loc, Len(tok.text), found.hipName),
                      printStats)

RECURSIVE RewriteTokens(_, _, _)
RewriteTokens(t, toks, printStats) ==
    IF toks = <<>> THEN t
    ELSE RewriteTokens(RewriteToken(t, Head(toks), printStats), Tail(toks),
                       printStats)

\* MacroDefined without the test for the main file
MacroDefined_anyFile(t, ev, printStats) ==
    RewriteTokens(t, ev.tokens, printStats)

\* HipifyPPCallbacks::MacroDefined
MacroDefined(t, ev, printStats) ==
    IF ~ev.inMain \/ ~ev.isDefine THEN t
    ELSE RewriteTokens(t, ev.tokens, printStats)

\* HipifyPPCallbacks::MacroExpands: the macro name, then the tokens lexed
\* from each argument
MacroExpands(t, ev, printStats) ==
    IF ~ev.inMain THEN t
    ELSE RewriteTokens(RewriteToken(t, ev.nameTok, printStats), ev.argToks,
                       printStats)

\* Cuda2HipCallback::cudaBuiltin
cudaBuiltin(t, ev, printStats) ==
    IF ~ev.baseIsOpaqueValue \/ ~ev.sourceIsDeclRef THEN t
    ELSE LET pos == find_first_not_of(ev.memberName,
                                      {s_fetch_builtin[k] :
                                          k \in 1..Len(s_fetch_builtin)})
             memberName == StringRef_slice(ev.memberName, pos,
                                           Len(ev.memberName))
             name == ev.declName \o <<".">> \o memberName
         IN  IF name \in DOMAIN CUDA_IDENTIFIER_MAP
             THEN LET found == CUDA_IDENTIFIER_MAP[name]
                      t1 == incrementCounter(t, name)
                  IN  IF ~found.unsupported
                      THEN insertReplacement(
                               t1,
                               Replacement(ev.begin, Len(name), found.hipName),
                               printStats)
                      ELSE t1
             ELSE printHipifyMessage(t, name)

\* Cuda2HipCallback::cudaEnumConstantRef
cudaEnumConstantRef(t, ev, printStats) ==
    IF ev.name \in DOMAIN CUDA_IDENTIFIER_MAP
    THEN LET found == CUDA_IDENTIFIER_MAP[ev.name]
             t1 == incrementCounter(t, ev.name)
         IN  IF ~found.unsupported
             THEN insertReplacement(
                      t1,
                      Replacement(ev.begin, Len(ev.name), found.hipName),
                      printStats)
             ELSE t1
    ELSE printHipifyMessage(t, ev.name)

\* Cuda2HipCallback::stringLiteral
stringLiteral(t, ev, printStats) ==
    IF ev.charByteWidth = 1
    THEN processString(t, ev.body, ev.begin, 0, printStats)
    ELSE t

\* Cuda2HipCallback::run on one match result: the first handler that
\* accepts wins; a handler whose node is not bound returns false
run(text, t, ev, printStats) ==
    IF ev.kind = "cudaType" /\ cudaType(t, ev, printStats)[2]
    THEN cudaType(t, ev, printStats)[1]
    ELSE LET t0 == IF ev.kind = "cudaType"
                   THEN cudaType(t, ev, printStats)[1] ELSE t
         IN  CASE ev.kind = "cudaCall" -> cudaCall(t0, ev, printStats)
               [] ev.kind = "cudaBuiltin" -> cudaBuiltin(t0, ev, printStats)
               [] ev.kind = "cudaEnumConstantRef" ->
                      cudaEnumConstantRef(t0, ev, printStats)
               [] ev.kind = "cudaLaunchKernel" ->
                      cudaLaunchKernel(text, t0, ev, printStats)
               [] ev.kind = "cudaSharedIncompleteArrayVar" ->
                      cudaSharedIncompleteArrayVar(t0, ev, printStats)
               [] ev.kind = "stringLiteral" ->
                      stringLiteral(t0, ev, printStats)
               [] OTHER -> t0

\* one front-end callback, preprocessor or AST match
Deliver(text, t, ev, printStats) ==
    CASE ev.kind = "include" -> InclusionDirective(t, ev, printStats)
      [] ev.kind = "MacroDefined" -> MacroDefined(t, ev, printStats)
      [] ev.kind = "MacroExpands" -> MacroExpands(t, ev, printStats)
      [] OTHER -> run(text, t, ev, printStats)

(***************************************************************************)
(* Translation units: the text of a main file together with the callbacks  *)
(* the front-end delivers for it (include directives seen by the           *)
(* preprocessor, nodes bound by the matchers of addAllMatchers).           *)
(***************************************************************************)
IncludeEv(name, inMain, angled, begin) ==
    [kind |-> "include", inMain |-> inMain, angled |-> angled,
     file_name |-> name, begin |-> begin, end |-> begin + Len(name) + 2]

TypeEv(typeName, isEnum, isStruct, begin) ==
    [kind |-> "cudaType", typeName |-> typeName, isEnum |-> isEnum,
     isStruct |-> isStruct, begin |-> begin]

CallEv(name, begin) ==
    [kind |-> "cudaCall", name |-> name, begin |-> begin]

Arg(b, e) ==
    [isDefault |-> FALSE, b |-> PlainLoc(b), e |-> PlainLoc(e)]

DefaultArg ==
    [isDefault |-> TRUE, b |-> PlainLoc(0), e |-> PlainLoc(0)]

LaunchEv(start, end, callee, config, args) ==
    [kind |-> "cudaLaunchKernel", start |-> PlainLoc(start),
     end |-> PlainLoc(end), callee |-> callee, config |-> config,
     args |-> args]

SharedEv(start, end, external, incomplete, elemTypeName, varName) ==
    [kind |-> "cudaSharedIncompleteArrayVar", start |-> start, end |-> end,
     hasExternalFormalLinkage |-> external,
     isIncompleteArrayType |-> incomplete,
     elemTypeName |-> elemTypeName, varName |-> varName]

TU(text, events) ==
    [text |-> text, events |-> events]

IncludeLine(name) ==
    s_hash_include \o s_lt \o name \o s_gt \o s_nl

t_call_tail ==
    <<"(", "&", "p", ",", " ", "1", "6", ")", ";", "\n">>
t_assign ==
    <<" ", "e", " ", "=", " ">>
t_call_line ==
    s_cudaError_t \o t_assign \o s_cudaMalloc \o t_call_tail
t_hip_call_line ==
    s_hipError_t \o t_assign \o s_hipMalloc \o t_call_tail
t_plain ==
    <<"i", "n", "t", " ", "x", ";", "\n">>
s_cuFoo ==
    <<"c", "u", "F", "o", "o">>
t_cuFoo_line ==
    s_cuFoo \o <<"(", ")", ";", "\n">>
t_launch ==
    <<"k", "e", "r", "n", "e", "l", "<", "<", "<", "g", "r", "i", "d", ",",
      " ", "b", "l", "o", "c", "k", ">", ">", ">", "(", "x", ")", ";", "\n">>
t_shared ==
    <<"e", "x", "t", "e", "r", "n", " ", "_", "_", "s", "h", "a", "r", "e",
      "d", "_", "_", " ", "f", "l", "o", "a", "t", " ", "b", "u", "f", "[",
      "]", ";", "\n">>

\* int x;
TU_plain ==
    TU(t_plain, {TypeEv(s_int, FALSE, FALSE, 0)})

\* #include <stdio.h>
TU_stdio ==
    TU(IncludeLine(s_stdio_h),
       {IncludeEv(s_stdio_h, TRUE, TRUE, Len(s_hash_include))})

\* cuFoo();  -- a call the matcher binds whose name no table holds
TU_unknown_call ==
    TU(t_cuFoo_line, {CallEv(s_cuFoo, 0)})

\* #include <cudaGL.h>  -- an unsupported header
TU_unsupported ==
    TU(IncludeLine(s_cudaGL_h),
       {IncludeEv(s_cudaGL_h, TRUE, TRUE, Len(s_hash_include))})

\* #include <cuda_runtime.h>
TU_include ==
    TU(IncludeLine(s_cuda_runtime_h),
       {IncludeEv(s_cuda_runtime_h, TRUE, TRUE, Len(s_hash_include))})

\* cudaError_t e = cudaMalloc(&p, 16);
TU_call ==
    TU(t_call_line,
       {TypeEv(s_cudaError_t, FALSE, FALSE, 0),
        CallEv(s_cudaMalloc, Len(s_cudaError_t) + Len(t_assign))})

\* the translation of TU_call
TU_call_hip ==
    TU(IncludeLine(s_hip_runtime_h) \o t_hip_call_line,
       {IncludeEv(s_hip_runtime_h, TRUE, TRUE, Len(s_hash_include)),
        TypeEv(s_hipError_t, FALSE, FALSE, Len(IncludeLine(s_hip_runtime_h)))})

\* kernel<<<grid, block>>>(x);
TU_launch ==
    TU(t_launch,
       {LaunchEv(0, 25, Arg(0, 0),
                 <<Arg(9, 9), Arg(15, 15), DefaultArg, DefaultArg>>,
                 <<Arg(24, 24)>>)})

\* extern __shared__ float buf[];
TU_shared ==
    TU(t_shared,
       {SharedEv(0, 28, TRUE, TRUE, s_float, s_buf),
        TypeEv(s_float, FALSE, FALSE, 18)})

\* #include <cuda_runtime.h> followed by the line of TU_call
TU_mix ==
    TU(IncludeLine(s_cuda_runtime_h) \o t_call_line,
       {IncludeEv(s_cuda_runtime_h, TRUE, TRUE, Len(s_hash_include)),
        TypeEv(s_cudaError_t, FALSE, FALSE,
               Len(IncludeLine(s_cuda_runtime_h))),
        CallEv(s_cudaMalloc,
               Len(IncludeLine(s_cuda_runtime_h)) + Len(s_cudaError_t)
               + Len(t_assign))})

\* #include <stdio.h> followed by the line of TU_launch
TU_stdio_launch ==
    TU(IncludeLine(s_stdio_h) \o t_launch,
       {IncludeEv(s_stdio_h, TRUE, TRUE, Len(s_hash_include)),
        LaunchEv(Len(IncludeLine(s_stdio_h)),
                 Len(IncludeLine(s_stdio_h)) + 25,
                 Arg(Len(IncludeLine(s_stdio_h)), Len(IncludeLine(s_stdio_h))),
                 <<Arg(Len(IncludeLine(s_stdio_h)) + 9,
                       Len(IncludeLine(s_stdio_h)) + 9),
                   Arg(Len(IncludeLine(s_stdio_h)) + 15,
                       Len(IncludeLine(s_stdio_h)) + 15),
                   DefaultArg, DefaultArg>>,
                 <<Arg(Len(IncludeLine(s_stdio_h)) + 24,
                       Len(IncludeLine(s_stdio_h)) + 24)>>)})


(***************************************************************************)
(* Further callbacks: builtin members, enum constants, string literals,    *)
(* macro definitions and macro expansions; locations inside macro          *)
(* expansions.                                                             *)
(***************************************************************************)
\* a location in the expansion of a macro body: file is where the macro is
\* used, spell where the token is written in the definition
MacroBodyLoc(file, spell, first, last) ==
    [file |-> file, spell |-> spell, body |-> TRUE, first |-> first,
     last |-> last]

Token(kind, txt, loc) ==
    [kind |-> kind, text |-> txt, loc |-> loc]

\* kernel<<<grid, block>>>(cudaMalloc(&p, 16));  -- a launch with an SRC
\* call among the kernel arguments
TU_launch_call ==
    TU(<<"k", "e", "r", "n", "e", "l", "<", "<", "<", "g", "r", "i", "d",
         ",", " ", "b", "l", "o", "c", "k", ">", ">", ">", "(", "c", "u",
         "d", "a", "M", "a", "l", "l", "o", "c", "(", "&", "p", ",", " ",
         "1", "6", ")", ")", ";", "\n">>,
       {LaunchEv(0, 42, Arg(0, 0),
                 <<Arg(9, 9), Arg(15, 15), DefaultArg, DefaultArg>>,
                 <<Arg(24, 41)>>),
        CallEv(s_cudaMalloc, 24)})

\* further translation units: the outputs of TU_launch_call, string
\* literals, unsupported entries, an enum constant, a builtin member, macros
FurtherTUs ==
    {
    \* what the launch edit makes of TU_launch_call: the call among the
    \* arguments is still there
    TU(<<"#", "i", "n", "c", "l", "u", "d", "e", " ", "<", "h", "i", "p",
         "/", "h", "i", "p", "_", "r", "u", "n", "t", "i", "m", "e", ".",
         "h", ">", "\n", "h", "i", "p", "L", "a", "u", "n", "c", "h", "K",
         "e", "r", "n", "e", "l", "G", "G", "L", "(", "k", "e", "r", "n",
         "e", "l", ",", " ", "d", "i", "m", "3", "(", "g", "r", "i", "d",
         ")", ",", " ", "d", "i", "m", "3", "(", "b", "l", "o", "c", "k",
         ")", ",", " ", "0", ",", " ", "0", ",", " ", "c", "u", "d", "a",
         "M", "a", "l", "l", "o", "c", "(", "&", "p", ",", " ", "1", "6",
         ")", ")", ";", "\n">>,
       {IncludeEv(s_hip_runtime_h, TRUE, TRUE, Len(s_hash_include)),
        CallEv(s_cudaMalloc, 87)}),
    \* what the call edit makes of TU_launch_call: the launch is still there
    TU(<<"#", "i", "n", "c", "l", "u", "d", "e", " ", "<", "h", "i", "p",
         "/", "h", "i", "p", "_", "r", "u", "n", "t", "i", "m", "e", ".",
         "h", ">", "\n", "k", "e", "r", "n", "e", "l", "<", "<", "<", "g",
         "r", "i", "d", ",", " ", "b", "l", "o", "c", "k", ">", ">", ">",
         "(", "h", "i", "p", "M", "a", "l", "l", "o", "c", "(", "&", "p",
         ",", " ", "1", "6", ")", ")", ";", "\n">>,
       {IncludeEv(s_hip_runtime_h, TRUE, TRUE, Len(s_hash_include)),
        LaunchEv(29, 70, Arg(29, 29),
                 <<Arg(38, 38), Arg(44, 44), DefaultArg, DefaultArg>>,
                 <<Arg(53, 69)>>)}),
    \* printf("error in cudaMalloc\n");
    \* the literal ends with a newline character
    TU(<<"p", "r", "i", "n", "t", "f", "(", "\"", "e", "r", "r", "o", "r",
         " ", "i", "n", " ", "c", "u", "d", "a", "M", "a", "l", "l", "o",
         "c", "\\", "n", "\"", ")", ";", "\n">>,
       {[kind |-> "stringLiteral", charByteWidth |-> 1, begin |-> 7,
         body |->
           <<"e", "r", "r", "o", "r", " ", "i", "n", " ", "c", "u", "d",
             "a", "M", "a", "l", "l", "o", "c", "\n">>]}),
    \* puts("cudaMalloc failed");
    TU(<<"p", "u", "t", "s", "(", "\"", "c", "u", "d", "a", "M", "a", "l",
         "l", "o", "c", " ", "f", "a", "i", "l", "e", "d", "\"", ")", ";",
         "\n">>,
       {[kind |-> "stringLiteral", charByteWidth |-> 1, begin |-> 5,
         body |->
           <<"c", "u", "d", "a", "M", "a", "l", "l", "o", "c", " ", "f",
             "a", "i", "l", "e", "d">>]}),
    \* puts("xcudaMalloc");
    TU(<<"p", "u", "t", "s", "(", "\"", "x", "c", "u", "d", "a", "M", "a",
         "l", "l", "o", "c", "\"", ")", ";", "\n">>,
       {[kind |-> "stringLiteral", charByteWidth |-> 1, begin |-> 5,
         body |->
           <<"x", "c", "u", "d", "a", "M", "a", "l", "l", "o", "c">>]}),
    \* puts("focus cudaMalloc");
    TU(<<"p", "u", "t", "s", "(", "\"", "f", "o", "c", "u", "s", " ", "c",
         "u", "d", "a", "M", "a", "l", "l", "o", "c", "\"", ")", ";", "\n">>,
       {[kind |-> "stringLiteral", charByteWidth |-> 1, begin |-> 5,
         body |->
           <<"f", "o", "c", "u", "s", " ", "c", "u", "d", "a", "M", "a",
             "l", "l", "o", "c">>]}),
    \* puts("cudaSetDoubleForDevice");
    \* an unsupported name in a literal
    TU(<<"p", "u", "t", "s", "(", "\"", "c", "u", "d", "a", "S", "e", "t",
         "D", "o", "u", "b", "l", "e", "F", "o", "r", "D", "e", "v", "i",
         "c", "e", "\"", ")", ";", "\n">>,
       {[kind |-> "stringLiteral", charByteWidth |-> 1, begin |-> 5,
         body |->
           <<"c", "u", "d", "a", "S", "e", "t", "D", "o", "u", "b", "l",
             "e", "F", "o", "r", "D", "e", "v", "i", "c", "e">>]}),
    \* puts(L"cudaMalloc");
    \* a wide literal
    TU(<<"p", "u", "t", "s", "(", "L", "\"", "c", "u", "d", "a", "M", "a",
         "l", "l", "o", "c", "\"", ")", ";", "\n">>,
       {[kind |-> "stringLiteral", charByteWidth |-> 4, begin |-> 5,
         body |->
           <<"c", "u", "d", "a", "M", "a", "l", "l", "o", "c">>]}),
    \* cudaSetDoubleForDevice(&d);  -- a call of an unsupported function
    TU(<<"c", "u", "d", "a", "S", "e", "t", "D", "o", "u", "b", "l", "e",
         "F", "o", "r", "D", "e", "v", "i", "c", "e", "(", "&", "d", ")",
         ";", "\n">>,
       {CallEv(s_cudaSetDoubleForDevice, 0)}),
    \* cudaUUID_t u;  -- an unsupported type
    TU(<<"c", "u", "d", "a", "U", "U", "I", "D", "_", "t", " ", "u", ";",
         "\n">>,
       {TypeEv(s_cudaUUID_t, FALSE, FALSE, 0)}),
    \* e = cudaSuccess;
    TU(<<"e", " ", "=", " ", "c", "u", "d", "a", "S", "u", "c", "c", "e",
         "s", "s", ";", "\n">>,
       {[kind |-> "cudaEnumConstantRef", name |-> s_cudaSuccess, begin |-> 4]}),
    \* int t = threadIdx.x;
    TU(<<"i", "n", "t", " ", "t", " ", "=", " ", "t", "h", "r", "e", "a",
         "d", "I", "d", "x", ".", "x", ";", "\n">>,
       {TypeEv(s_int, FALSE, FALSE, 0),
        [kind |-> "cudaBuiltin", baseIsOpaqueValue |-> TRUE,
         sourceIsDeclRef |-> TRUE, begin |-> 8,
         declName |-> <<"t", "h", "r", "e", "a", "d", "I", "d", "x">>,
         memberName |->
           <<"_", "_", "f", "e", "t", "c", "h", "_", "b", "u", "i", "l",
             "t", "i", "n", "_", "x">>]}),
    \* #define K kernel / K<<<grid, block>>>(x);
    \* the launch begins in the expansion of K and ends in the file
    TU(<<"#", "d", "e", "f", "i", "n", "e", " ", "K", " ", "k", "e", "r",
         "n", "e", "l", "\n", "K", "<", "<", "<", "g", "r", "i", "d", ",",
         " ", "b", "l", "o", "c", "k", ">", ">", ">", "(", "x", ")", ";",
         "\n">>,
       {[kind |-> "MacroDefined", inMain |-> TRUE, isDefine |-> TRUE,
         tokens |-> <<Token("identifier", <<"k", "e", "r", "n", "e", "l">>, 10)>>],
        [kind |-> "MacroExpands", inMain |-> TRUE,
         nameTok |-> Token("identifier", <<"K">>, 17),
         argToks |-> <<>>],
        [kind |-> "cudaLaunchKernel",
         start |-> MacroBodyLoc(17, 10, TRUE, TRUE),
         end |-> PlainLoc(37),
         callee |-> [isDefault |-> FALSE, b |-> MacroBodyLoc(17, 10, TRUE, TRUE),
                    e |-> MacroBodyLoc(17, 10, TRUE, TRUE)],
         config |-> <<[isDefault |-> FALSE, b |-> PlainLoc(21),
                      e |-> PlainLoc(21)],
                      [isDefault |-> FALSE, b |-> PlainLoc(27),
                      e |-> PlainLoc(27)],
                      DefaultArg, DefaultArg>>,
         args |-> <<[isDefault |-> FALSE, b |-> PlainLoc(36),
                    e |-> PlainLoc(36)]>>]}),
    \* #define LAUNCH kernel<<<grid, block>>>(x) / LAUNCH;
    \* the whole launch lies in the expansion of LAUNCH
    TU(<<"#", "d", "e", "f", "i", "n", "e", " ", "L", "A", "U", "N", "C",
         "H", " ", "k", "e", "r", "n", "e", "l", "<", "<", "<", "g", "r",
         "i", "d", ",", " ", "b", "l", "o", "c", "k", ">", ">", ">", "(",
         "x", ")", "\n", "L", "A", "U", "N", "C", "H", ";", "\n">>,
       {[kind |-> "MacroDefined", inMain |-> TRUE, isDefine |-> TRUE,
         tokens |-> <<Token("identifier", <<"k", "e", "r", "n", "e", "l">>, 15),
                      Token("other", <<"<", "<", "<">>, 21)>>],
        [kind |-> "MacroExpands", inMain |-> TRUE,
         nameTok |-> Token("identifier", <<"L", "A", "U", "N", "C", "H">>, 42),
         argToks |-> <<>>],
        [kind |-> "cudaLaunchKernel",
         start |-> MacroBodyLoc(42, 15, TRUE, FALSE),
         end |-> MacroBodyLoc(42, 40, FALSE, TRUE),
         callee |-> [isDefault |-> FALSE, b |-> MacroBodyLoc(42, 15, TRUE, FALSE),
                    e |-> MacroBodyLoc(42, 15, TRUE, FALSE)],
         config |-> <<[isDefault |-> FALSE, b |-> MacroBodyLoc(42, 24, FALSE, FALSE),
                      e |-> MacroBodyLoc(42, 24, FALSE, FALSE)],
                      [isDefault |-> FALSE, b |-> MacroBodyLoc(42, 30, FALSE, FALSE),
                      e |-> MacroBodyLoc(42, 30, FALSE, FALSE)],
                      DefaultArg, DefaultArg>>,
         args |-> <<[isDefault |-> FALSE, b |-> MacroBodyLoc(42, 39, FALSE, FALSE),
                    e |-> MacroBodyLoc(42, 39, FALSE, FALSE)]>>]}),
    \* #define M cudaMalloc / M(&p, 16);
    \* the call is written in the macro body: seen at the definition and again
    \* by the call matcher, whose location spells in the definition
    TU(<<"#", "d", "e", "f", "i", "n", "e", " ", "M", " ", "c", "u", "d",
         "a", "M", "a", "l", "l", "o", "c", "\n", "M", "(", "&", "p", ",",
         " ", "1", "6", ")", ";", "\n">>,
       {[kind |-> "MacroDefined", inMain |-> TRUE, isDefine |-> TRUE,
         tokens |-> <<Token("identifier", s_cudaMalloc, 10)>>],
        [kind |-> "MacroExpands", inMain |-> TRUE,
         nameTok |-> Token("identifier", <<"M">>, 21),
         argToks |-> <<>>],
        CallEv(s_cudaMalloc, 10)}),
    \* #define F cudaSetDoubleForDevice  -- an unsupported name in a macro body
    TU(<<"#", "d", "e", "f", "i", "n", "e", " ", "F", " ", "c", "u", "d",
         "a", "S", "e", "t", "D", "o", "u", "b", "l", "e", "F", "o", "r",
         "D", "e", "v", "i", "c", "e", "\n">>,
       {[kind |-> "MacroDefined", inMain |-> TRUE, isDefine |-> TRUE,
         tokens |-> <<Token("identifier", s_cudaSetDoubleForDevice, 10)>>]}),
    \* puts("cudaMalloc cudaSuccess cudaMalloc-cudaFree ok");
    \* several candidates in one literal
    TU(<<"p", "u", "t", "s", "(", "\"", "c", "u", "d", "a", "M", "a", "l",
         "l", "o", "c", " ", "c", "u", "d", "a", "S", "u", "c", "c", "e",
         "s", "s", " ", "c", "u", "d", "a", "M", "a", "l", "l", "o", "c",
         "-", "c", "u", "d", "a", "F", "r", "e", "e", " ", "o", "k", "\"",
         ")", ";", "\n">>,
       {[kind |-> "stringLiteral", charByteWidth |-> 1, begin |-> 5,
         body |->
           <<"c", "u", "d", "a", "M", "a", "l", "l", "o", "c", " ", "c",
             "u", "d", "a", "S", "u", "c", "c", "e", "s", "s", " ", "c",
             "u", "d", "a", "M", "a", "l", "l", "o", "c", "-", "c", "u",
             "d", "a", "F", "r", "e", "e", " ", "o", "k">>]}),
    \* kernel<<<grid, block, n, s>>>();
    \* explicit shared-memory size and stream, no kernel argument
    TU(<<"k", "e", "r", "n", "e", "l", "<", "<", "<", "g", "r", "i", "d",
         ",", " ", "b", "l", "o", "c", "k", ",", " ", "n", ",", " ", "s",
         ">", ">", ">", "(", ")", ";", "\n">>,
       {LaunchEv(0, 30, Arg(0, 0),
                 <<Arg(9, 9), Arg(15, 15), Arg(22, 22), Arg(25, 25)>>,
                 <<>>)}),
    \* int t = box.len;  -- box of a user struct __cuda_builtin_box_t whose
    \* property len is read through the member __fetch_builtin_len
    TU(<<"i", "n", "t", " ", "t", " ", "=", " ", "b", "o", "x", ".", "l",
         "e", "n", ";", "\n">>,
       {[kind |-> "cudaBuiltin", baseIsOpaqueValue |-> TRUE,
         sourceIsDeclRef |-> TRUE, begin |-> 8,
         declName |-> <<"b", "o", "x">>,
         memberName |->
           <<"_", "_", "f", "e", "t", "c", "h", "_", "b", "u", "i", "l",
             "t", "i", "n", "_", "l", "e", "n">>]}),
    \* #include "defs.h" / int x;  -- defs.h holds #define M cudaMalloc and
    \* CHECK(cudaMalloc(&p, 16)): macro callbacks located outside the main file
    TU(<<"#", "i", "n", "c", "l", "u", "d", "e", " ", "\"", "d", "e", "f",
         "s", ".", "h", "\"", "\n", "i", "n", "t", " ", "x", ";", "\n">>,
       {IncludeEv(<<"d", "e", "f", "s", ".", "h">>, TRUE, FALSE, 9),
        [kind |-> "MacroDefined", inMain |-> FALSE, isDefine |-> TRUE,
         tokens |-> <<Token("identifier", s_cudaMalloc, 10)>>],
        [kind |-> "MacroExpands", inMain |-> FALSE,
         nameTok |-> Token("identifier", <<"C", "H", "E", "C", "K">>, 40),
         argToks |-> <<Token("identifier", s_cudaMalloc, 46),
                       Token("other", <<"(">>, 56)>>]}),
    \* #define CHECK(x) do { cudaError_t _e = (x); } while(0)
    \* CHECK(cudaMalloc(&p, 16));
    \* the type is seen at the definition and by the type matcher, the call in
    \* the macro argument by the expansion callback and by the call matcher
    TU(<<"#", "d", "e", "f", "i", "n", "e", " ", "C", "H", "E", "C", "K",
         "(", "x", ")", " ", "d", "o", " ", "{", " ", "c", "u", "d", "a",
         "E", "r", "r", "o", "r", "_", "t", " ", "_", "e", " ", "=", " ",
         "(", "x", ")", ";", " ", "}", " ", "w", "h", "i", "l", "e", "(",
         "0", ")", "\n", "C", "H", "E", "C", "K", "(", "c", "u", "d", "a",
         "M", "a", "l", "l", "o", "c", "(", "&", "p", ",", " ", "1", "6",
         ")", ")", ";", "\n">>,
       {[kind |-> "MacroDefined", inMain |-> TRUE, isDefine |-> TRUE,
         tokens |-> <<Token("other", <<"d", "o">>, 17),
                      Token("other", <<"{">>, 20),
                      Token("identifier", <<"c", "u", "d", "a", "E", "r", "r", "o", "r", "_",
                        "t">>, 22),
                      Token("identifier", <<"_", "e">>, 34),
                      Token("other", <<"=">>, 37),
                      Token("other", <<"(">>, 39),
                      Token("identifier", <<"x">>, 40),
                      Token("other", <<")">>, 41),
                      Token("other", <<";">>, 42),
                      Token("other", <<"}">>, 44),
                      Token("other", <<"w", "h", "i", "l", "e">>, 46),
                      Token("other", <<"(">>, 51),
                      Token("other", <<"0">>, 52),
                      Token("other", <<")">>, 53)>>],
        [kind |-> "MacroExpands", inMain |-> TRUE,
         nameTok |-> Token("identifier", <<"C", "H", "E", "C", "K">>, 55),
         argToks |-> <<Token("identifier", <<"c", "u", "d", "a", "M", "a", "l", "l", "o", "c">>, 61),
                      Token("other", <<"(">>, 71),
                      Token("other", <<"&">>, 72),
                      Token("identifier", <<"p">>, 73),
                      Token("other", <<",">>, 74),
                      Token("other", <<"1", "6">>, 76),
                      Token("other", <<")">>, 78)>>],
        TypeEv(s_cudaError_t, FALSE, FALSE, 22),
        CallEv(s_cudaMalloc, 61)}),
    \* #define S "cudaMalloc failed" / puts(S);
    \* the literal is seen as a token of the definition and by the literal matcher
    TU(<<"#", "d", "e", "f", "i", "n", "e", " ", "S", " ", "\"", "c", "u",
         "d", "a", "M", "a", "l", "l", "o", "c", " ", "f", "a", "i", "l",
         "e", "d", "\"", "\n", "p", "u", "t", "s", "(", "S", ")", ";", "\n">>,
       {[kind |-> "MacroDefined", inMain |-> TRUE, isDefine |-> TRUE,
         tokens |-> <<Token("string_literal", <<"\"", "c", "u", "d", "a", "M", "a", "l", "l", "o",
                        "c", " ", "f", "a", "i", "l", "e", "d", "\"">>, 10)>>],
        [kind |-> "MacroExpands", inMain |-> TRUE,
         nameTok |-> Token("identifier", <<"S">>, 35),
         argToks |-> <<>>],
        [kind |-> "stringLiteral", charByteWidth |-> 1, begin |-> 10,
         body |->
           <<"c", "u", "d", "a", "M", "a", "l", "l", "o", "c", " ", "f",
             "a", "i", "l", "e", "d">>]}),
    \* #define S "\n\n\n\n\n\n\n\n\n\ncudaMalloc" / puts(S);
    \* ten escape sequences before the name: the token holds them as written,
    \* the literal of the syntax tree holds ten newline characters
    TU(<<"#", "d", "e", "f", "i", "n", "e", " ", "S", " ", "\"", "\\", "n",
         "\\", "n", "\\", "n", "\\", "n", "\\", "n", "\\", "n", "\\", "n",
         "\\", "n", "\\", "n", "\\", "n", "c", "u", "d", "a", "M", "a",
         "l", "l", "o", "c", "\"", "\n", "p", "u", "t", "s", "(", "S", ")",
         ";", "\n">>,
       {[kind |-> "MacroDefined", inMain |-> TRUE, isDefine |-> TRUE,
         tokens |-> <<Token("string_literal", <<"\"", "\\", "n", "\\", "n", "\\", "n", "\\", "n",
                        "\\", "n", "\\", "n", "\\", "n", "\\", "n", "\\",
                        "n", "\\", "n", "c", "u", "d", "a", "M", "a", "l",
                        "l", "o", "c", "\"">>, 10)>>],
        [kind |-> "MacroExpands", inMain |-> TRUE,
         nameTok |-> Token("identifier", <<"S">>, 48),
         argToks |-> <<>>],
        [kind |-> "stringLiteral", charByteWidth |-> 1, begin |-> 10,
         body |->
           <<"\n", "\n", "\n", "\n", "\n", "\n", "\n", "\n", "\n", "\n",
             "c", "u", "d", "a", "M", "a", "l", "l", "o", "c">>]})
    }

TUs ==
    {TU_plain, TU_stdio, TU_unknown_call, TU_unsupported, TU_include,
     TU_call, TU_call_hip, TU_launch, TU_shared, TU_mix, TU_stdio_launch,
     TU_launch_call} \cup FurtherTUs

\* the callbacks the front-end delivers for a main file with this text
EventsOf(text) ==
    IF \E u \in TUs : u.text = text
    THEN (CHOOSE u \in TUs : u.text = text).events
    ELSE {}

(***************************************************************************)
(* State.                                                                  *)
(***************************************************************************)
VARIABLES
    \* command line: the cl::opt globals and the source path list; argv
    \* keeps -no-output and -print-stats as given, since main overwrites
    \* the globals NoOutput and PrintStats
    OutputFilename, Inplace, NoBackup, NoOutput, PrintStats,
    OutputStatsFilename, Examine, fileSources, argv,
    \* locals of main and the file system
    pc, i, dst, Result, csv, statPrint, fs, Buffer, RewriteBuf, exitCode,
    \* what main has done so far: Tool.run results, overwriteChangedFiles
    \* results, the files whose statistics were printed
    runResults, writeResults, flushed, aggregated,
    \* the translator of one file: replacementsToUse, Statistics::current(),
    \* warnings on stderr, and the progress of the front-end over the unit
    Replace, stats, warned, bytes, tu, pending, ended, applied, output

optVars ==
    <<OutputFilename, Inplace, NoBackup, OutputStatsFilename, Examine,
      fileSources, argv>>

mainVars ==
    <<pc, i, dst, Result, csv, statPrint, fs, Buffer, RewriteBuf, exitCode,
      runResults, writeResults, flushed, aggregated, NoOutput>>

unitVars ==
    <<stats, warned, bytes, tu, pending, ended, applied, output>>

vars ==
    <<optVars, mainVars, unitVars, PrintStats, Replace>>

(***************************************************************************)
(* The translator on one translation unit, callback by callback.           *)
(***************************************************************************)
Current ==
    TrState(Replace, stats, warned, bytes)

Become(t) ==
    /\ Replace' = t.Replace
    /\ stats' = t.stats
    /\ warned' = t.warned
    /\ bytes' = t.bytes

\* the front-end delivers callback ev to its handler
Callback(ev) ==
    /\ Become(Deliver(tu.text, Current, ev, PrintStats))
    /\ pending' = pending \ {ev}

OnInclusionDirective ==
    /\ ~ended /\ ~applied
    /\ \E ev \in pending : ev.kind = "include" /\ Callback(ev)
    /\ UNCHANGED <<optVars, mainVars, PrintStats, tu, ended, applied, output>>

OnCudaType ==
    /\ ~ended /\ ~applied
    /\ \E ev \in pending : ev.kind = "cudaType" /\ Callback(ev)
    /\ UNCHANGED <<optVars, mainVars, PrintStats, tu, ended, applied, output>>

OnCudaCall ==
    /\ ~ended /\ ~applied
    /\ \E ev \in pending : ev.kind = "cudaCall" /\ Callback(ev)
    /\ UNCHANGED <<optVars, mainVars, PrintStats, tu, ended, applied, output>>

OnCudaLaunchKernel ==
    /\ ~ended /\ ~applied
    /\ \E ev \in pending : ev.kind = "cudaLaunchKernel" /\ Callback(ev)
    /\ UNCHANGED <<optVars, mainVars, PrintStats, tu, ended, applied, output>>

OnCudaSharedIncompleteArrayVar ==
    /\ ~ended /\ ~applied
    /\ \E ev \in pending :
          ev.kind = "cudaSharedIncompleteArrayVar" /\ Callback(ev)
    /\ UNCHANGED <<optVars, mainVars, PrintStats, tu, ended, applied, output>>

OnCudaBuiltin ==
    /\ ~ended /\ ~applied
    /\ \E ev \in pending : ev.kind = "cudaBuiltin" /\ Callback(ev)
    /\ UNCHANGED <<optVars, mainVars, PrintStats, tu, ended, applied, output>>

OnCudaEnumConstantRef ==
    /\ ~ended /\ ~applied
    /\ \E ev \in pending : ev.kind = "cudaEnumConstantRef" /\ Callback(ev)
    /\ UNCHANGED <<optVars, mainVars, PrintStats, tu, ended, applied, output>>

OnStringLiteral ==
    /\ ~ended /\ ~applied
    /\ \E ev \in pending : ev.kind = "stringLiteral" /\ Callback(ev)
    /\ UNCHANGED <<optVars, mainVars, PrintStats, tu, ended, applied, output>>

OnMacroDefined ==
    /\ ~ended /\ ~applied
    /\ \E ev \in pending : ev.kind = "MacroDefined" /\ Callback(ev)
    /\ UNCHANGED <<optVars, mainVars, PrintStats, tu, ended, applied, output>>

OnMacroExpands ==
    /\ ~ended /\ ~applied
    /\ \E ev \in pending : ev.kind = "MacroExpands" /\ Callback(ev)
    /\ UNCHANGED <<optVars, mainVars, PrintStats, tu, ended, applied, output>>

\* HipifyPPCallbacks::handleEndSource
handleEndSource ==
    /\ ~ended /\ ~applied
    /\ Become(insertHipHeaders(Current, PrintStats))
    /\ ended' = TRUE
    /\ UNCHANGED <<optVars, mainVars, PrintStats, tu, pending, applied, output>>

\* Tool.applyAllReplacements on the buffer of the unit
ApplyToUnit ==
    /\ ~applied
    /\ output' = applyAllReplacements(tu.text, Replace)
    /\ applied' = TRUE
    /\ UNCHANGED <<optVars, mainVars, PrintStats, Replace, stats, warned,
                   bytes, tu, pending, ended>>

(***************************************************************************)
(* The driver: main.                                                       *)
(***************************************************************************)
MaxFiles == 2

\* Tool.run returns 0 on success, 1 when a file failed, 2 when files were
\* skipped
MaxRunResult == 2

f_a ==
    <<"a", ".", "c", "u">>
f_b ==
    <<"b", ".", "c", "u">>
f_out ==
    <<"o", "u", "t", ".", "c", "p", "p">>
f_stats ==
    <<"s", "t", ".", "c", "s", "v">>
t_old_rows ==
    <<"o", "l", "d", "\n">>

SourceNames == {f_a, f_b}

\* the files present when main starts
InitFS ==
    (f_a :> t_call_line) @@ (f_b :> t_plain) @@ (f_stats :> t_old_rows)

SourceLists ==
    UNION {[1..n -> SourceNames] : n \in 1..MaxFiles}

TmpName(path) == path \o s_hipify_tmp

HipName(path) == path \o s_hip

PrehipName(path) == path \o s_prehip

exists(f, name) == name \in DOMAIN f

\* copyFile written as a move: the source does not survive the copy
copyFile_move(f, from, to) ==
    [n \in (DOMAIN f \cup {to}) \ ({from} \ {to}) |->
        IF n = to THEN (IF exists(f, from) THEN f[from] ELSE <<>>) ELSE f[n]]

\* copyFile: the destination is created or truncated, then receives the
\* bytes of the source
copyFile(f, from, to) ==
    [n \in DOMAIN f \cup {to} |->
        IF n = to THEN (IF exists(f, from) THEN f[from] ELSE <<>>) ELSE f[n]]

\* rename(2): the destination is replaced; renaming a file onto itself, or
\* a file that does not exist, changes nothing
rename(f, from, to) ==
    IF ~exists(f, from) \/ from = to THEN f
    ELSE [n \in (DOMAIN f \cup {to}) \ {from} |->
             IF n = to THEN f[from] ELSE f[n]]

\* remove that leaves the file behind
remove_noop(f, name) == f

\* remove(3)
remove(f, name) ==
    [n \in DOMAIN f \ {name} |-> f[n]]

\* std::ofstream(name, trunc)
truncate(f, name) ==
    [n \in DOMAIN f \cup {name} |-> IF n = name THEN <<>> ELSE f[n]]

append(f, name, row) ==
    [f EXCEPT ![name] = @ \o row]

src == fileSources[i]

tmpFile == TmpName(src)

Exit(code, at) ==
    /\ exitCode' = code
    /\ pc' = at

\* lines 747-764: the option conflicts checked before any work
CheckOptions ==
    /\ pc = "start"
    /\ IF OutputFilename # <<>> /\ Len(fileSources) > 1
       THEN Exit(1, "rejected")
       ELSE IF NoOutput /\ Inplace
       THEN Exit(1, "rejected")
       ELSE IF NoOutput /\ OutputFilename # <<>>
       THEN Exit(1, "rejected")
       ELSE /\ pc' = "setup"
            /\ exitCode' = exitCode
    /\ dst' = OutputFilename
    /\ UNCHANGED <<optVars, unitVars, PrintStats, Replace, i, Result, csv,
                   statPrint, fs, Buffer, RewriteBuf, runResults, writeResults,
                   flushed, aggregated, NoOutput>>

\* lines 766-780: -examine, the result, the statistics sinks
Setup ==
    /\ pc = "setup"
    /\ NoOutput' = (IF Examine THEN TRUE ELSE NoOutput)
    /\ PrintStats' = (IF Examine THEN TRUE ELSE PrintStats)
    /\ Result' = 0
    /\ csv' = (OutputStatsFilename # <<>>)
    /\ fs' = IF OutputStatsFilename # <<>>
             THEN truncate(fs, OutputStatsFilename) ELSE fs
    /\ statPrint' = PrintStats'
    /\ i' = 1
    /\ pc' = "loop"
    /\ UNCHANGED <<optVars, unitVars, Replace, dst, Buffer, RewriteBuf, exitCode,
                   runResults, writeResults, flushed, aggregated>>

\* lines 782-792: the head of the loop over the sources
LoopHead ==
    /\ pc = "loop"
    /\ i <= Len(fileSources)
    /\ IF dst = <<>>
       THEN /\ dst' = (IF Inplace THEN src ELSE HipName(src))
            /\ pc' = "copy"
            /\ exitCode' = exitCode
       ELSE IF Inplace
       THEN /\ Exit(1, "rejected")
            /\ dst' = dst
       ELSE /\ pc' = "copy"
            /\ dst' = dst
            /\ exitCode' = exitCode
    /\ UNCHANGED <<optVars, unitVars, PrintStats, Replace, i, Result, csv,
                   statPrint, fs, Buffer, RewriteBuf, runResults, writeResults,
                   flushed, aggregated, NoOutput>>

\* lines 794-802: the working copy
CopyToTmp ==
    /\ pc = "copy"
    /\ fs' = copyFile(fs, src, tmpFile)
    /\ pc' = "run"
    /\ UNCHANGED <<optVars, unitVars, PrintStats, Replace, i, dst, Result,
                   csv, statPrint, Buffer, RewriteBuf, exitCode, runResults,
                   writeResults, flushed, aggregated, NoOutput>>

RECURSIVE DeliverAll(_, _, _, _)
DeliverAll(text, t, evs, printStats) ==
    IF evs = {} THEN t
    ELSE LET ev == CHOOSE x \in evs : TRUE
         IN  DeliverAll(text, Deliver(text, t, ev, printStats), evs \ {ev},
                        printStats)

\* one run of the front-end over a file: the callbacks delivered, then
\* handleEndSource when the source file was begun
RunFrontEnd(text, delivered, callEnd, printStats) ==
    LET t == DeliverAll(text, TrState({}, EmptyBag, {}, 0), delivered,
                        printStats)
    IN  IF callEnd THEN insertHipHeaders(t, printStats) ELSE t

\* lines 807-828: Tool.run on the working copy.  A run that returns 0 has
\* delivered every callback; a failing run delivers any part of them.
ToolRun ==
    /\ pc = "run"
    /\ \E r \in 0..MaxRunResult :
       \E delivered \in SUBSET EventsOf(fs[tmpFile]) :
       \E callEnd \in BOOLEAN :
          /\ r = 0 => (delivered = EventsOf(fs[tmpFile]) /\ callEnd)
          /\ Replace' = RunFrontEnd(fs[tmpFile], delivered, callEnd,
                                    PrintStats).Replace
          /\ Result' = Result + r
          /\ runResults' = Append(runResults, r)
    /\ Buffer' = fs[tmpFile]
    /\ pc' = "apply"
    /\ UNCHANGED <<optVars, unitVars, PrintStats, i, dst, csv, statPrint, fs,
                   RewriteBuf, exitCode, writeResults, flushed, aggregated,
                   NoOutput>>

\* lines 830-840: the rewriter holds a buffer for the file when there is
\* something to replace
ApplyReplacements ==
    /\ pc = "apply"
    /\ RewriteBuf' = IF Replace = {} THEN <<>>
                     ELSE <<applyAllReplacements(Buffer, Replace)>>
    /\ pc' = "move"
    /\ UNCHANGED <<optVars, unitVars, PrintStats, Replace, i, dst, Result,
                   csv, statPrint, fs, Buffer, exitCode, runResults, writeResults,
                   flushed, aggregated, NoOutput>>

\* Rewriter::overwriteChangedFiles: each changed buffer is written over its
\* file; w = 1 when a file could not be written
overwriteChangedFiles(f, w) ==
    IF RewriteBuf # <<>> /\ w = 0
    THEN [f EXCEPT ![tmpFile] = RewriteBuf[1]]
    ELSE f

\* MoveOrRemove that throws the working copy away when the front-end run
\* of the file reported a failure
MoveOrRemove_discardOnFailure ==
    /\ pc = "move"
    /\ IF ~NoOutput /\ runResults[Len(runResults)] = 0
       THEN \E w \in (IF RewriteBuf = <<>> THEN {0} ELSE {0, 1}) :
               /\ Result' = Result + w
               /\ fs' = rename(overwriteChangedFiles(fs, w), tmpFile, dst)
               /\ writeResults' = Append(writeResults, w)
       ELSE /\ fs' = remove(fs, tmpFile)
            /\ Result' = Result
            /\ writeResults' = Append(writeResults, 0)
    /\ pc' = "stats"
    /\ UNCHANGED <<optVars, unitVars, PrintStats, Replace, i, dst, csv,
                   statPrint, Buffer, RewriteBuf, exitCode, runResults, flushed,
                   aggregated, NoOutput>>

\* lines 842-848: move the working copy onto the output, or remove it
MoveOrRemove ==
    /\ pc = "move"
    /\ IF ~NoOutput
       THEN \E w \in (IF RewriteBuf = <<>> THEN {0} ELSE {0, 1}) :
               /\ Result' = Result + w
               /\ fs' = rename(overwriteChangedFiles(fs, w), tmpFile, dst)
               /\ writeResults' = Append(writeResults, w)
       ELSE /\ fs' = remove(fs, tmpFile)
            /\ Result' = Result
            /\ writeResults' = Append(writeResults, 0)
    /\ pc' = "stats"
    /\ UNCHANGED <<optVars, unitVars, PrintStats, Replace, i, dst, csv,
                   statPrint, Buffer, RewriteBuf, exitCode, runResults, flushed,
                   aggregated, NoOutput>>

\* lines 850-853: the statistics of the file, and the next iteration
FlushStats ==
    /\ pc = "stats"
    /\ flushed' = Append(flushed, src)
    /\ fs' = IF csv THEN append(fs, OutputStatsFilename, src \o s_nl) ELSE fs
    /\ dst' = <<>>
    /\ i' = i + 1
    /\ pc' = "loop"
    /\ UNCHANGED <<optVars, unitVars, PrintStats, Replace, Result, csv,
                   statPrint, Buffer, RewriteBuf, exitCode, runResults, writeResults,
                   aggregated, NoOutput>>

\* Return that reports only whether anything failed
Return_flag ==
    /\ pc = "loop"
    /\ i > Len(fileSources)
    /\ aggregated' = (Len(fileSources) > 1)
    /\ Exit(IF Result > 0 THEN 1 ELSE 0, "done")
    /\ UNCHANGED <<optVars, unitVars, PrintStats, Replace, i, dst, Result,
                   csv, statPrint, fs, Buffer, RewriteBuf, runResults,
                   writeResults, flushed, NoOutput>>

\* lines 856-860
Return ==
    /\ pc = "loop"
    /\ i > Len(fileSources)
    /\ aggregated' = (Len(fileSources) > 1)
    /\ Exit(Result, "done")
    /\ UNCHANGED <<optVars, unitVars, PrintStats, Replace, i, dst, Result,
                   csv, statPrint, fs, Buffer, RewriteBuf, runResults, writeResults,
                   flushed, NoOutput>>

(***************************************************************************)
(* Specifications.                                                         *)
(***************************************************************************)
UnitIdle ==
    /\ stats = EmptyBag /\ warned = {} /\ bytes = 0
    /\ tu = TU_plain /\ pending = {} /\ ended = FALSE /\ applied = FALSE
    /\ output = <<>>

MainIdle ==
    /\ pc = "unit" /\ i = 1 /\ dst = <<>> /\ Result = 0 /\ csv = FALSE
    /\ statPrint = FALSE /\ fs = InitFS /\ Buffer = <<>> /\ RewriteBuf = <<>>
    /\ exitCode = -1 /\ runResults = <<>> /\ writeResults = <<>>
    /\ flushed = <<>> /\ aggregated = FALSE

\* main is entered with any command line over the sample paths
Init ==
    /\ OutputFilename \in {<<>>, f_out, f_a}
    /\ Inplace \in BOOLEAN
    /\ NoBackup \in BOOLEAN
    /\ NoOutput \in BOOLEAN
    /\ PrintStats \in BOOLEAN
    /\ OutputStatsFilename \in {<<>>, f_stats}
    /\ Examine \in BOOLEAN
    /\ fileSources \in SourceLists
    /\ argv = [no_output |-> NoOutput, print_stats |-> PrintStats]
    /\ pc = "start" /\ i = 1 /\ dst = <<>> /\ Result = 0 /\ csv = FALSE
    /\ statPrint = FALSE /\ fs = InitFS /\ Buffer = <<>> /\ RewriteBuf = <<>>
    /\ exitCode = -1 /\ runResults = <<>> /\ writeResults = <<>>
    /\ flushed = <<>> /\ aggregated = FALSE
    /\ Replace = {}
    /\ UnitIdle

Next ==
    \/ CheckOptions
    \/ Setup
    \/ LoopHead
    \/ CopyToTmp
    \/ ToolRun
    \/ ApplyReplacements
    \/ MoveOrRemove
    \/ FlushStats
    \/ Return

Spec == Init /\ [][Next]_vars

\* the front-end over one translation unit
InitTranslate ==
    /\ OutputFilename = <<>> /\ Inplace = FALSE /\ NoBackup = FALSE
    /\ NoOutput = FALSE /\ OutputStatsFilename = <<>> /\ Examine = FALSE
    /\ fileSources = <<f_a>>
    /\ PrintStats \in BOOLEAN
    /\ argv = [no_output |-> FALSE, print_stats |-> PrintStats]
    /\ MainIdle
    /\ Replace = {} /\ stats = EmptyBag /\ warned = {} /\ bytes = 0
    /\ tu \in TUs
    /\ pending = tu.events
    /\ ended = FALSE /\ applied = FALSE /\ output = <<>>

NextTranslate ==
    \/ OnInclusionDirective
    \/ OnMacroDefined
    \/ OnMacroExpands
    \/ OnCudaType
    \/ OnCudaCall
    \/ OnCudaBuiltin
    \/ OnCudaEnumConstantRef
    \/ OnCudaLaunchKernel
    \/ OnCudaSharedIncompleteArrayVar
    \/ OnStringLiteral
    \/ handleEndSource
    \/ ApplyToUnit

SpecTranslate == InitTranslate /\ [][NextTranslate]_vars

(***************************************************************************)
(* Properties of the driver (specification Spec).                          *)
(***************************************************************************)
RECURSIVE Sum(_)
Sum(q) ==
    IF q = <<>> THEN 0 ELSE q[1] + Sum(Tail(q))

\* one of the four conflicting option combinations is on the command line
OptionConflict ==
    \/ OutputFilename # <<>> /\ Len(fileSources) > 1
    \/ argv.no_output /\ Inplace
    \/ argv.no_output /\ OutputFilename # <<>>
    \/ OutputFilename # <<>> /\ Inplace

\* main has touched no file and run no front-end
NoWorkDone ==
    fs = InitFS /\ runResults = <<>> /\ flushed = <<>>

Returned ==
    pc \in {"rejected", "done"}

\* the content of the k-th source differs from what it was when main started
SourceChanged(k) ==
    \/ ~exists(fs, fileSources[k])
    \/ fs[fileSources[k]] # InitFS[fileSources[k]]

\* C1: with any of the four conflicting option combinations main does no
\* work (no file is created, truncated or changed, no front-end run, no
\* statistics) and returns 1.
C1_ConflictDoesNoWork ==
    OptionConflict => NoWorkDone /\ (Returned => pc = "rejected" /\ exitCode = 1)

\* C2: -examine behaves as -no-output -print-stats; in particular, given
\* with -inplace or with -o it is rejected as an option conflict (exit code
\* 1) before main starts on any file, exactly as -no-output is.
C2_ExamineRejectedLikeNoOutput ==
    (Examine /\ (Inplace \/ OutputFilename # <<>>)) =>
        /\ pc \notin {"copy", "run", "apply", "move", "stats"}
        /\ (Returned => pc = "rejected" /\ exitCode = 1)

\* C3: after a job with -inplace every input has a backup <src>.prehip that
\* holds the original bytes of <src>, unless -no-backup was given, and then
\* no .prehip file exists.
C3_BackupKeepsOriginal ==
    (pc = "done" /\ Inplace /\ ~Examine) =>
        \A k \in 1..Len(fileSources) :
            IF NoBackup
            THEN ~exists(fs, PrehipName(fileSources[k]))
            ELSE /\ exists(fs, PrehipName(fileSources[k]))
                 /\ fs[PrehipName(fileSources[k])] = InitFS[fileSources[k]]

C6_ExitIsSumOfRuns ==
    pc = "done" => exitCode = Sum(runResults)

\* C6 amended: the exit code is the sum of the front-end results plus one
\* for every file whose rewritten working copy could not be written
\* (overwriteChangedFiles).
C6_ExitIsSumOfRunsAndWrites ==
    pc = "done" => exitCode = Sum(runResults) + Sum(writeResults)

\* a job of two files with front-end failures and a failed write
C6_Witness ==
    /\ pc = "done"
    /\ Len(fileSources) = 2
    /\ Sum(runResults) > 1
    /\ Sum(writeResults) > 0

\* C7: the working file <src>.hipify-tmp exists when the front-end runs on
\* it, and is gone (renamed to the destination, or removed with
\* -no-output) before the loop advances or main returns.
C7_TmpLifetime ==
    /\ pc \in {"run", "apply", "move"} => exists(fs, tmpFile)
    /\ pc = "stats" => ~exists(fs, tmpFile)
    /\ pc \in {"loop", "done"} =>
          \A k \in 1..(i - 1) : ~exists(fs, TmpName(fileSources[k]))

\* the loop has advanced past a file whose working copy was removed under
\* -no-output
C7_Witness ==
    /\ pc = "loop"
    /\ i = 2
    /\ NoOutput
    /\ Len(runResults) = 1
    /\ ~exists(fs, TmpName(fileSources[1]))

(***************************************************************************)
(* Properties of the translator on one unit (specification SpecTranslate). *)
(***************************************************************************)
\* the edit insertHipHeaders makes: the include line at offset 0, length 0
HeaderEdit ==
    Replacement(0, 0, s_header_text)

HeaderEdits ==
    {e \in Replace : e.text = s_header_text}

\* number of places where pat occurs in s
CountOcc(s, pat) ==
    Cardinality({k \in 0..(Len(s) - Len(pat)) :
                    Slice(s, k, k + Len(pat)) = pat})

\* C8: the handlers never insert the runtime-header edit; at end-of-source
\* it is inserted if and only if the replacement set holds at least one
\* edit; the set never holds more than one, the include counter is
\* incremented once with it, and a file with no edits gets none.
C8_HeaderIffEdits ==
    /\ ~ended => HeaderEdits = {}
    /\ ended => (HeaderEdit \in Replace <=> Replace \ {HeaderEdit} # {})
    /\ HeaderEdits \subseteq {HeaderEdit}
    /\ CopiesIn(s_include_cuda, stats) = Cardinality(HeaderEdits)

\* end-of-source reached with every callback delivered and several edits
C8_Witness ==
    /\ ended
    /\ pending = {}
    /\ HeaderEdit \in Replace
    /\ Cardinality(Replace) >= 3

\* the angle-bracket include of the SRC runtime header was rewritten
IncludeRewritten ==
    \E e \in Replace : e.len > 0 /\ e.text = s_lt \o s_hip_runtime_h \o s_gt

\* C9: when the include of the SRC runtime header is rewritten to
\* <hip/hip_runtime.h>, the translated output holds exactly one
\* #include <hip/hip_runtime.h> directive.
C9_SingleRuntimeInclude ==
    (applied /\ ended /\ IncludeRewritten) =>
        CountOcc(output, s_hip_include_line) = 1

\* every slice of a text
Slices(s) ==
    {Slice(s, a, b) : a \in 0..Len(s), b \in 0..Len(s)}

\* the names a token holds
TokenNames(tok) ==
    IF tok.kind = "string_literal" THEN Slices(tok.text) ELSE {tok.text}

\* the names a callback looks up or copies
EventNames(ev) ==
    CASE ev.kind = "include" -> {ev.file_name}
      [] ev.kind = "cudaType" ->
            {ev.typeName, removePrefixIfPresent(ev.typeName, s_enum_sp),
             removePrefixIfPresent(ev.typeName, s_struct_sp)}
      [] ev.kind = "cudaCall" -> {ev.name}
      [] ev.kind = "cudaLaunchKernel" -> {}
      [] ev.kind = "cudaSharedIncompleteArrayVar" ->
            {ev.elemTypeName, ev.varName}
      [] ev.kind = "cudaBuiltin" ->
            {ev.declName \o <<".">>
                 \o removePrefixIfPresent(ev.memberName, s_fetch_builtin)}
      [] ev.kind = "cudaEnumConstantRef" -> {ev.name}
      [] ev.kind = "stringLiteral" -> Slices(ev.body)
      [] ev.kind = "MacroDefined" ->
            UNION {TokenNames(ev.tokens[k]) : k \in 1..Len(ev.tokens)}
      [] ev.kind = "MacroExpands" ->
            TokenNames(ev.nameTok)
                \cup UNION {TokenNames(ev.argToks[k]) :
                               k \in 1..Len(ev.argToks)}

TableKeys ==
    DOMAIN CUDA_INCLUDE_MAP \cup DOMAIN CUDA_TYPE_NAME_MAP
        \cup DOMAIN CUDA_IDENTIFIER_MAP

\* no name of the unit is a key of a rename table
NoSrcVocabulary ==
    \A ev \in tu.events : EventNames(ev) \cap TableKeys = {}

NoLaunchNoShared ==
    \A ev \in tu.events :
        ev.kind \notin {"cudaLaunchKernel", "cudaSharedIncompleteArrayVar"}

\* C10 as claimed: a file none of whose names is a key of a rename table
\* gets no edit and its output is byte-identical to the input, also when
\* it holds launch-syntax calls or extern shared incomplete arrays.
C10_NoVocabularyNoEdit ==
    NoSrcVocabulary => (Replace = {} /\ (applied => output = tu.text))

\* C10 amended: a file none of whose names is a key of a rename table and
\* that holds neither a launch-syntax call nor an extern shared
\* incomplete-array declaration gets no edit, and its output is
\* byte-identical to the input.
C10_NoVocabularyNoLaunchNoEdit ==
    (NoSrcVocabulary /\ NoLaunchNoShared) =>
        (Replace = {} /\ (applied => output = tu.text))

\* a unit with an SRC-shaped call that no table holds went through the
\* whole translator unchanged
C10_Witness ==
    /\ NoSrcVocabulary /\ NoLaunchNoShared
    /\ tu.events # {} /\ pending = {} /\ ended /\ applied
    /\ warned # {}
    /\ output = tu.text

(***************************************************************************)
(* Properties of the replacement set over one translation unit             *)
(* (specification SpecTranslate).                                          *)
(***************************************************************************)
EmptyTr ==
    TrState({}, EmptyBag, {}, 0)

\* the callbacks delivered so far
Delivered ==
    tu.events \ pending

\* the edits a callback hands to insertReplacement, whatever the set holds
ProducedBy(ev) ==
    Deliver(tu.text, EmptyTr, ev, FALSE).Replace

\* the edits the handlers have produced so far
Produced ==
    UNION {ProducedBy(ev) : ev \in Delivered}

NoOverlap(R) ==
    \A e1, e2 \in R : e1 # e2 => ~Overlaps(e1, e2)

RECURSIVE ApplyDescending(_, _)
ApplyDescending(buf, R) ==
    IF R = {} THEN buf
    ELSE LET e == CHOOSE x \in R :
                      \A y \in R : \/ y.off < x.off
                                   \/ (y.off = x.off /\ y.len <= x.len)
         IN  ApplyDescending(
                 Slice(buf, 0, e.off) \o e.text
                     \o Slice(buf, e.off + e.len, Len(buf)),
                 R \ {e})

\* C12: every edit a handler produced is in the written output in full and
\* every byte outside the edits is unchanged: no produced edit is missing
\* from the set that is applied, and the output is the buffer with exactly
\* the edits of the set replaced.
C12_NoEditLost ==
    applied =>
        /\ Produced \subseteq Replace
        /\ output = ApplyDescending(tu.text, Replace)

\* every order in which the callbacks of a unit can be delivered
Orders(S) ==
    {q \in [1..Cardinality(S) -> S] :
        \A a, b \in 1..Cardinality(S) : a # b => q[a] # q[b]}

RECURSIVE DeliverInOrder(_, _, _)
DeliverInOrder(text, t, q) ==
    IF q = <<>> THEN t
    ELSE DeliverInOrder(text, Deliver(text, t, Head(q), FALSE), Tail(q))

\* the output of a whole run that delivers the callbacks in order q
OutputInOrder(u, q) ==
    applyAllReplacements(
        u.text,
        insertHipHeaders(DeliverInOrder(u.text, EmptyTr, q), FALSE).Replace)

\* C13: the output of a whole run is the same for every order in which the
\* handlers insert their edits.
C13_OrderIndependent ==
    (applied /\ ended /\ pending = {}) =>
        \A q \in Orders(tu.events) : output = OutputInOrder(tu, q)

(***************************************************************************)
(* Statistics and warnings (specification SpecTranslate).                  *)
(***************************************************************************)
\* C14: across all handlers, every edit of the replacement set stands for
\* exactly one counter increment and every warning for exactly one counter
\* increment and no edit: the increments counted so far are as many as the
\* edits held plus the warnings printed.
C14_OneIncrementPerEditOrWarning ==
    BagCardinality(stats) = Cardinality(Replace) + Cardinality(warned)

Unsupported(map) ==
    {n \in DOMAIN map : map[n].unsupported}

WhitespaceChars ==
    {" ", "\n", "\t"}

\* the places b of body s where the word n stands between whitespace or
\* the ends of the string
WordAt(s, n) ==
    {b \in 0..(Len(s) - Len(n)) :
        /\ Slice(s, b, b + Len(n)) = n
        /\ (b = 0 \/ s[b] \in WhitespaceChars)
        /\ (b + Len(n) = Len(s) \/ s[b + Len(n) + 1] \in WhitespaceChars)}

UnsupportedTokens(toks) ==
    {toks[k].text : k \in {j \in 1..Len(toks) : toks[j].kind = "identifier"}}
        \cap Unsupported(CUDA_RENAMES_MAP)

\* the unsupported entries the lookup of a callback finds
UnsupportedLookups(ev) ==
    CASE ev.kind = "include" ->
            IF ev.inMain /\ ev.angled
            THEN {ev.file_name} \cap Unsupported(CUDA_INCLUDE_MAP) ELSE {}
      [] ev.kind = "cudaType" ->
            {ev.typeName} \cap Unsupported(CUDA_TYPE_NAME_MAP)
      [] ev.kind \in {"cudaCall", "cudaEnumConstantRef"} ->
            {ev.name} \cap Unsupported(CUDA_IDENTIFIER_MAP)
      [] ev.kind = "stringLiteral" ->
            IF ev.charByteWidth = 1
            THEN {n \in Unsupported(CUDA_RENAMES_MAP) : WordAt(ev.body, n) # {}}
            ELSE {}
      [] ev.kind = "MacroDefined" ->
            IF ev.inMain /\ ev.isDefine THEN UnsupportedTokens(ev.tokens)
            ELSE {}
      [] ev.kind = "MacroExpands" ->
            IF ev.inMain
            THEN UnsupportedTokens(<<ev.nameTok>> \o ev.argToks) ELSE {}
      [] OTHER -> {}

\* C15: at every lookup site, a lookup that finds an entry flagged
\* unsupported prints a warning naming the name, increments the counter of
\* the entry and inserts no edit.
C15_UnsupportedWarnsAndCounts ==
    \A ev \in Delivered : \A n \in UnsupportedLookups(ev) :
        /\ n \in warned
        /\ CopiesIn(n, stats) >= 1
        /\ ProducedBy(ev) = {}

(***************************************************************************)
(* The string-literal rewriter (specification SpecTranslate).              *)
(***************************************************************************)
Supported(map) ==
    {n \in DOMAIN map : ~map[n].unsupported}

\* the string literals of one byte per character handed to stringLiteral
NarrowLiterals ==
    {ev \in Delivered : ev.kind = "stringLiteral" /\ ev.charByteWidth = 1}

\* C16: for every string literal of one byte per character and every
\* place where a supported IDENT name stands in it as a
\* whitespace-delimited word, the set holds the edit that replaces exactly
\* that name by its DST name.
C16_DelimitedNameRewritten ==
    \A ev \in NarrowLiterals : \A n \in Supported(CUDA_IDENTIFIER_MAP) :
        \A b \in WordAt(ev.body, n) :
            Replacement(ev.begin + b + 1, Len(n),
                        CUDA_IDENTIFIER_MAP[n].hipName) \in Replace

(***************************************************************************)
(* Running the translator on its own output (specification                 *)
(* SpecTranslate).                                                         *)
(***************************************************************************)
DstNames ==
    {CUDA_INCLUDE_MAP[n].hipName : n \in Supported(CUDA_INCLUDE_MAP)}
        \cup {CUDA_RENAMES_MAP[n].hipName : n \in Supported(CUDA_RENAMES_MAP)}

\* a text whose callbacks are known
KnownUnit(text) ==
    \E u \in TUs : u.text = text

\* a whole run of the front-end over a text
WholeRun(text) ==
    RunFrontEnd(text, EventsOf(text), TRUE, FALSE)

\* C17: with tables none of whose DST names is a key, a run on the output
\* of a finished run produces an empty replacement set, so the second
\* output is byte-identical to the first; also for launch-syntax calls
\* whose kernel arguments hold SRC names.
C17_SecondRunEmpty ==
    (/\ applied /\ ended /\ pending = {}
     /\ DstNames \cap TableKeys = {}
     /\ KnownUnit(output)) =>
        /\ WholeRun(output).Replace = {}
        /\ applyAllReplacements(output, WholeRun(output).Replace) = output

(***************************************************************************)
(* The write range of the launch handler (specification SpecTranslate).    *)
(***************************************************************************)
LaunchesDelivered ==
    {ev \in Delivered : ev.kind = "cudaLaunchKernel"}

SpellingRange(ev) ==
    <<ev.start.spell, ev.end.spell>>

FileRange(ev) ==
    <<ev.start.file, ev.end.file>>

\* C18 as claimed: getWriteRange returns the spelling locations of both
\* endpoints when at least one endpoint is in a macro body expansion, and
\* the file locations only when neither is.
C18_SpellingIfEitherInBody ==
    \A ev \in LaunchesDelivered :
        getWriteRange(ev.start, ev.end) =
            IF ev.start.body \/ ev.end.body THEN SpellingRange(ev)
            ELSE FileRange(ev)

\* C18 amended: getWriteRange returns the spelling locations only when
\* both endpoints are in a macro body expansion, and the file locations
\* when at least one is not; the launch edit covers that range up to the
\* end of its last token.
C18_SpellingOnlyIfBothInBody ==
    \A ev \in LaunchesDelivered :
        LET r == IF ev.start.body /\ ev.end.body THEN SpellingRange(ev)
                 ELSE FileRange(ev)
        IN  /\ getWriteRange(ev.start, ev.end) = r
            /\ \A e \in ProducedBy(ev) :
                  /\ e.off = r[1]
                  /\ e.off + e.len = getLocForEndOfToken(tu.text, r[2])

\* a launch that begins in a macro body expansion and ends outside of one
\* has been rewritten where the macro is used
C18_Witness ==
    \E ev \in LaunchesDelivered :
        /\ ev.start.body /\ ~ev.end.body
        /\ ev.start.spell # ev.start.file
        /\ \E e \in Replace : e.off = ev.start.file /\ e.len > 0
        /\ applied

(***************************************************************************)
(* The scan of processString (specification SpecTranslate).                *)
(***************************************************************************)
\* C19: for an occurrence of "cu" at b that the scan visits (the first one
\* of a literal is always visited), the candidate is the slice from b to
\* the first whitespace character at or after b, or to the end of the
\* string; when it is a supported IDENT key the set holds the edit at
\* start + b + 1 of the length of the candidate with the DST name.
C19_CandidateEndsAtWhitespace ==
    \A ev \in NarrowLiterals :
        LET b == find(ev.body, s_cu, 0)
            e == find_first_of(ev.body, WhitespaceChars, b)
            candidate == StringRef_slice(ev.body, b, e)
        IN  (b # npos /\ candidate \in Supported(CUDA_IDENTIFIER_MAP)) =>
                Replacement(ev.begin + b + 1, Len(candidate),
                            CUDA_IDENTIFIER_MAP[candidate].hipName)
                    \in Replace

\* the edits that lie in the body of a literal
EditsIn(ev) ==
    {e \in Replace : /\ ev.begin + 1 <= e.off
                     /\ e.off + e.len <= ev.begin + 1 + Len(ev.body)}

\* C20: processString never replaces a part of a word: every slice it
\* replaces begins at the start of the string or right after a whitespace
\* character and ends at a whitespace character or at the end of the
\* string.
C20_NoPartialToken ==
    \A ev \in NarrowLiterals : \A e \in EditsIn(ev) :
        LET b == e.off - ev.begin - 1
        IN  /\ (b = 0 \/ ev.body[b] \in WhitespaceChars)
            /\ (b + e.len = Len(ev.body)
                \/ ev.body[b + e.len + 1] \in WhitespaceChars)

\* the candidate slice of one iteration of the scan, as the pair of its
\* first offset and the offset after its last byte
Candidate(s, it) ==
    <<it.begin, IF it.end = npos THEN Len(s) ELSE it.end>>

\* the edits one scan of the literal emits: one per candidate that is a
\* supported key
ScanEdits(ev) ==
    LET sc == processStringScan(ev.body, 0)
    IN  {Replacement(ev.begin + sc[k].begin + 1,
                     Len(StringRef_slice(ev.body, sc[k].begin, sc[k].end)),
                     CUDA_RENAMES_MAP[StringRef_slice(ev.body, sc[k].begin,
                                                      sc[k].end)].hipName) :
           k \in {j \in 1..Len(sc) :
                     StringRef_slice(ev.body, sc[j].begin, sc[j].end)
                         \in Supported(CUDA_RENAMES_MAP)}}

\* C21: the scan loop of processString terminates (it makes at most one
\* iteration per byte of the string), every iteration but the last ends its
\* candidate at a byte and the next iteration starts past that end, so the
\* scan position strictly increases; the candidate slices of one call are
\* pairwise disjoint, and the edits one call emits are exactly those of its
\* supported candidates and never overlap.
C21_ScanAdvances ==
    \A ev \in NarrowLiterals :
        LET sc == processStringScan(ev.body, 0)
        IN  /\ Len(sc) <= Len(ev.body)
            /\ \A k \in 1..Len(sc) :
                   k < Len(sc) =>
                          /\ sc[k].end # npos
                          /\ sc[k].begin < sc[k].end
                          /\ sc[k].end < sc[k + 1].begin
                          /\ sc[k].begin < sc[k + 1].begin
            /\ \A j, k \in 1..Len(sc) :
                   j < k => Candidate(ev.body, sc[j])[2]
                                <= Candidate(ev.body, sc[k])[1]
            /\ ProducedBy(ev) = ScanEdits(ev)
            /\ NoOverlap(ScanEdits(ev))

\* a literal whose scan made three iterations and emitted two edits has
\* been handled
C21_Witness ==
    \E ev \in NarrowLiterals :
        /\ Len(processStringScan(ev.body, 0)) >= 3
        /\ Cardinality(ScanEdits(ev)) >= 2
        /\ ScanEdits(ev) \subseteq Replace

\* the source text of an argument of a launch as it is written
Verbatim(a) ==
    readSourceText(tu.text, a.b, a.e)

\* a configuration argument: 0 when the source gave no explicit value
ZeroOrVerbatim(a) ==
    IF a.isDefault THEN <<"0">> ELSE Verbatim(a)

\* the text the launch syntax is replaced by
LaunchText(ev) ==
    <<"h", "i", "p", "L", "a", "u", "n", "c", "h", "K", "e", "r", "n", "e",
      "l", "G", "G", "L", "(">>
    \o Verbatim(ev.callee) \o <<",", " ", "d", "i", "m", "3", "(">>
    \o Verbatim(ev.config[1]) \o <<")", ",", " ", "d", "i", "m", "3", "(">>
    \o Verbatim(ev.config[2]) \o <<")", ",", " ">>
    \o ZeroOrVerbatim(ev.config[3]) \o <<",", " ">>
    \o ZeroOrVerbatim(ev.config[4])
    \o (IF Len(ev.args) >= 1
        THEN <<",", " ">>
             \o readSourceText(tu.text, ev.args[1].b, ev.args[Len(ev.args)].e)
        ELSE <<>>)
    \o <<")">>

\* C22: for every launch-syntax call the launch handler emits exactly one
\* edit; it spans the launch expression from its begin to the end of its
\* last token, and its text is hipLaunchKernelGGL( callee , dim3( arg0 ),
\* dim3( arg1 ), arg2 , arg3 followed by a comma and the verbatim kernel
\* arguments only when there is a kernel argument, then ), where arg2 and
\* arg3 are 0 when the source gave no value and their source text otherwise.
C22_LaunchEdit ==
    \A ev \in LaunchesDelivered :
        LET r == getWriteRange(ev.start, ev.end)
        IN  ProducedBy(ev) =
                {Replacement(r[1], getLocForEndOfToken(tu.text, r[2]) - r[1],
                             LaunchText(ev))}

\* a launch with an explicit shared-memory size and stream and without a
\* kernel argument has been handled and its edit is in the set
C22_Witness ==
    \E ev \in LaunchesDelivered :
        /\ ~ev.config[3].isDefault /\ ~ev.config[4].isDefault
        /\ Len(ev.args) = 0
        /\ ProducedBy(ev) \subseteq Replace
        /\ \E e \in Replace : e.off = 0 /\ e.len = 31

\* the builtin member references the handler has looked up
BuiltinsDelivered ==
    {ev \in Delivered : /\ ev.kind = "cudaBuiltin"
                        /\ ev.baseIsOpaqueValue /\ ev.sourceIsDeclRef}

\* C23: in the builtin member handler the trimmed member name is the member
\* name without the prefix __fetch_builtin_ when it starts with that prefix
\* and the member name itself otherwise, and the key looked up is
\* declName.trimmed: a key of IDENT is counted (and rewritten when it is
\* supported), any other key is named in the 'not handled' warning.
C23_PrefixRemoved ==
    \A ev \in BuiltinsDelivered :
        LET trimmed == removePrefixIfPresent(ev.memberName,
                           <<"_", "_", "f", "e", "t", "c", "h", "_", "b",
                             "u", "i", "l", "t", "i", "n", "_">>)
            key == ev.declName \o <<".">> \o trimmed
        IN  IF key \in DOMAIN CUDA_IDENTIFIER_MAP
            THEN /\ CopiesIn(key, stats) >= 1
                 /\ key \in Supported(CUDA_IDENTIFIER_MAP) =>
                        ProducedBy(ev) =
                            {Replacement(ev.begin, Len(key),
                                         CUDA_IDENTIFIER_MAP[key].hipName)}
            ELSE key \in warned

\* the macro callbacks delivered so far
MacrosDelivered ==
    {ev \in Delivered : ev.kind \in {"MacroDefined", "MacroExpands"}}

\* the tokens of a macro callback that Token Rewrite is about: the
\* replacement list of a definition, the name and the arguments of an
\* expansion
VisitedTokens(ev) ==
    IF ev.kind = "MacroDefined"
    THEN {ev.tokens[k] : k \in 1..Len(ev.tokens)}
    ELSE {ev.nameTok} \cup {ev.argToks[k] : k \in 1..Len(ev.argToks)}

\* a string holds a candidate of the literal scan that is a supported key
HasSupportedMatch(s) ==
    LET sc == processStringScan(s, 0)
    IN  \E k \in 1..Len(sc) :
            StringRef_slice(s, sc[k].begin, sc[k].end)
                \in Supported(CUDA_RENAMES_MAP)

\* Token Rewrite inserts an edit for exactly the identifiers that are
\* supported keys of the table keys and the string literals with a
\* supported match; other tokens and identifiers outside keys change
\* neither the set nor the counters
TokenRewriteBy(keys, tok) ==
    LET r == RewriteToken(EmptyTr, tok, FALSE)
        supported == /\ tok.kind = "identifier"
                     /\ tok.text \in keys
                     /\ ~CUDA_RENAMES_MAP[tok.text].unsupported
    IN  /\ r.Replace # {} <=>
               \/ supported
               \/ /\ tok.kind = "string_literal"
                  /\ HasSupportedMatch(unquoteStr(tok.text))
        /\ supported =>
               r.Replace = {Replacement(tok.loc, Len(tok.text),
                                        CUDA_RENAMES_MAP[tok.text].hipName)}
        /\ (\/ tok.kind \notin {"identifier", "string_literal"}
            \/ tok.kind = "identifier" /\ tok.text \notin keys) =>
               r.Replace = {} /\ r.stats = EmptyBag

\* macro callbacks located outside the main file change nothing
OutsideMainNoRewrite ==
    /\ \A ev \in MacrosDelivered :
           ~ev.inMain => Deliver(tu.text, EmptyTr, ev, FALSE) = EmptyTr
    /\ (Delivered # {} /\ \A ev \in Delivered :
                              ev.kind \in {"MacroDefined", "MacroExpands"}
                              /\ ~ev.inMain) =>
           Replace = {} /\ stats = EmptyBag

Sites(ev) ==
    IF ev.kind \in {"MacroDefined", "MacroExpands"}
    THEN IF ev.inMain /\ (ev.kind = "MacroDefined" => ev.isDefine)
         THEN {tok.loc : tok \in {x \in VisitedTokens(ev) :
                                     x.kind \in {"identifier", "string_literal"}}}
         ELSE {}
    ELSE IF ev.kind \in {"cudaCall", "cudaType", "cudaEnumConstantRef",
                         "cudaBuiltin", "stringLiteral"}
    THEN {ev.begin}
    ELSE {}

\* the visit a callback pays to one of its sites
Visit(t, ev, site) ==
    IF ev.kind \in {"MacroDefined", "MacroExpands"}
    THEN RewriteToken(t, CHOOSE tok \in VisitedTokens(ev) : tok.loc = site,
                      FALSE)
    ELSE Deliver(tu.text, t, ev, FALSE)

\* C25: duplicate visits are safe: when a site is visited more than once
\* (a string literal by the literal matcher and by Token Rewrite, a name of
\* a macro body at the definition and again by a matcher at the expansion),
\* the replacement set and the rewritten output are the same as after the
\* first visit alone.
C25_DuplicateVisitSafe ==
    \A ev1, ev2 \in Delivered : \A site \in Sites(ev1) \cap Sites(ev2) :
        LET once == Visit(EmptyTr, ev1, site)
            twice == Visit(once, ev2, site)
        IN  /\ twice.Replace = once.Replace
            /\ ApplyDescending(tu.text, twice.Replace)
                   = ApplyDescending(tu.text, once.Replace)

====
